---- MODULE Spec2Model ----
(***************************************************************************)
(* A model of the codec kernel of `ende`: the Context (settings and the    *)
(* three flatten channels), the primitive integer / size / variant /       *)
(* bool / char / string codec of Encoder, the save -> set -> body ->       *)
(* restore frames the derive macro generates for per-field setting         *)
(* overrides, the stream modifier layers and their nesting, the seek       *)
(* wrapper and the borrow path.                                            *)
(*                                                                         *)
(* Integers are bit vectors: a value of an N-bit type is a sequence of N   *)
(* bits, index 1 being the least significant one, so that the 64- and      *)
(* 128-bit types are modelled at their real width.  A byte is a number in  *)
(* 0..255 and a stream is a sequence of bytes.                             *)
(***************************************************************************)
EXTENDS Integers, Sequences, FiniteSets, TLC

VARIABLES ctxt, stream, last, arg, frames

vars == <<ctxt, stream, last, arg, frames>>

(***************************************************************************)
(* Bounds of the model                                                     *)
(***************************************************************************)
\* integer inputs are the two's complement patterns of -MaxMag..MaxMag plus
\* the extreme patterns of each width
MaxMag == 130
\* char inputs are the code points 0..MaxCodepoint plus the boundary ones
MaxCodepoint == 144
\* longest input the encoder model is built over
MaxInput == 2
\* deepest nesting of generated override frames
MaxDepth == 2

(***************************************************************************)
(* Bit vectors                                                             *)
(***************************************************************************)
Pow2(n) == 2 ^ n

Zeros(w) == [i \in 1..w |-> 0]

Ones(w) == [i \in 1..w |-> 1]

\* the w-bit pattern of a natural number below 2^31
FromNat(n, w) == [i \in 1..w |-> IF i > 31 THEN 0 ELSE (n \div Pow2(i - 1)) % 2]

\* the w-bit two's complement pattern of an integer of small magnitude
FromInt(n, w) ==
    IF n >= 0 THEN FromNat(n, w)
    ELSE [i \in 1..w |-> 1 - FromNat((-n) - 1, w)[i]]

\* the number held in bits lo..hi of b (at most 31 bits wide)
RECURSIVE BitsToNat(_, _, _)
BitsToNat(b, lo, hi) ==
    IF hi < lo THEN 0 ELSE b[lo] + 2 * BitsToNat(b, lo + 1, hi)

Width(b) == Len(b)

\* logical shift right: `shifted >>= n` on an unsigned type
Shr(b, n) == [i \in 1..Width(b) |-> IF i + n <= Width(b) THEN b[i + n] ELSE 0]

\* arithmetic shift right: `shifted >>= n` on a signed type
AShr(b, n) == [i \in 1..Width(b) |-> IF i + n <= Width(b) THEN b[i + n] ELSE b[Width(b)]]

\* shift left, the bits shifted out are lost: `x << n` with n < BITS
Shl(b, n) == [i \in 1..Width(b) |-> IF i > n THEN b[i - n] ELSE 0]

BitOr(a, b) == [i \in 1..Width(a) |-> IF a[i] = 1 \/ b[i] = 1 THEN 1 ELSE 0]

BitXor(a, b) == [i \in 1..Width(a) |-> IF a[i] # b[i] THEN 1 ELSE 0]

BitNot(a) == [i \in 1..Width(a) |-> 1 - a[i]]

\* `x as T` towards a wider or narrower unsigned type: zero extension / truncation
ZeroExt(b, w) == [i \in 1..w |-> IF i <= Width(b) THEN b[i] ELSE 0]

\* sign extension of a signed value to w bits
SignExt(b, w) == [i \in 1..w |-> IF i <= Width(b) THEN b[i] ELSE b[Width(b)]]

\* a < b for unsigned values of the same width
RECURSIVE ULessFrom(_, _, _)
ULessFrom(a, b, i) ==
    IF i = 0 THEN FALSE
    ELSE IF a[i] # b[i] THEN a[i] < b[i]
    ELSE ULessFrom(a, b, i - 1)

ULess(a, b) == ULessFrom(a, b, Width(a))

\* the k-th byte (k = 0 the least significant one) of a value
ByteAt(b, k) == BitsToNat(b, 8 * k + 1, 8 * k + 8)

\* `x as u8 & 0b0111_1111`
Low7(b) == BitsToNat(b, 1, 7)

Reverse(s) == [i \in 1..Len(s) |-> s[Len(s) + 1 - i]]

(***************************************************************************)
(* Results: Ok(val) / Err(err); n is the number of stream bytes the call   *)
(* wrote or consumed                                                       *)
(***************************************************************************)
\* Option: None, or Some(v)
None == <<>>

Some(v) == <<v>>

Unwrap(o) == o[1]

NoErr == [kind |-> "", expected |-> None, got |-> None]

Ok(v, n) == [ok |-> TRUE, err |-> NoErr, val |-> v, n |-> n]

\* an error of the given kind; expected / got / max / requested fill the same two slots
ErrWith(kind, expected, got, n) ==
    [ok |-> FALSE, err |-> [kind |-> kind, expected |-> expected, got |-> got],
     val |-> None, n |-> n]

Err(e, n) == ErrWith(e, None, None, n)

\* the bytes a successful write produces, as a result
Wrote(bytes) == Ok(bytes, Len(bytes))

Endiannesses == {"LittleEndian", "BigEndian"}

NumEncodings == {"Fixed", "Leb128", "ProtobufWasteful", "ProtobufZigzag"}

BitWidths == {8, 16, 32, 64, 128}

(***************************************************************************)
(* make_write_fns: the integer encoders, generic in the width of the type  *)
(***************************************************************************)
to_le_bytes(value) == [k \in 1..(Width(value) \div 8) |-> ByteAt(value, k - 1)]

to_be_bytes(value) == Reverse(to_le_bytes(value))

RECURSIVE uleb128_encode(_)
uleb128_encode(value) ==
    LET byte == Low7(value)
        shifted == Shr(value, 7)
    IN  IF shifted # Zeros(Width(value))
        THEN <<byte + 128>> \o uleb128_encode(shifted)
        ELSE <<byte>>

\* leb128_encode that leaves the continuation bit clear on every byte
RECURSIVE leb128_encode_no_continuation_bit(_)
leb128_encode_no_continuation_bit(value) ==
    LET byte == Low7(value)
        shifted == AShr(value, 7)
        neg == byte >= 64
    IN  IF (neg /\ shifted # Ones(Width(value))) \/ (~neg /\ shifted # Zeros(Width(value)))
        THEN <<byte>> \o leb128_encode_no_continuation_bit(shifted)
        ELSE <<byte>>

RECURSIVE leb128_encode(_)
leb128_encode(value) ==
    LET byte == Low7(value)
        shifted == AShr(value, 7)
        neg == byte >= 64
    IN  IF (neg /\ shifted # Ones(Width(value))) \/ (~neg /\ shifted # Zeros(Width(value)))
        THEN <<byte + 128>> \o leb128_encode(shifted)
        ELSE <<byte>>

fixed_bytes(value, endianness) ==
    IF endianness = "BigEndian" THEN to_be_bytes(value) ELSE to_le_bytes(value)

u_write_direct(value, num_encoding, endianness) ==
    IF num_encoding = "Fixed"
    THEN Wrote(fixed_bytes(value, endianness))
    ELSE Wrote(uleb128_encode(value))

\* the zigzag transform with a logical shift for the sign
zigzag_logical_shift(value) == BitXor(Shl(value, 1), Shr(value, Width(value) - 1))

zigzag(value) == BitXor(Shl(value, 1), AShr(value, Width(value) - 1))

i_write_direct(value, num_encoding, endianness) ==
    CASE num_encoding = "Fixed" -> Wrote(fixed_bytes(value, endianness))
      [] num_encoding = "Leb128" -> Wrote(leb128_encode(value))
      [] num_encoding = "ProtobufWasteful" -> Wrote(uleb128_encode(value))
      [] num_encoding = "ProtobufZigzag" -> Wrote(uleb128_encode(zigzag(value)))

(***************************************************************************)
(* make_read_fns: the integer decoders.  s is the unread part of the       *)
(* stream; a read past its end is UnexpectedEnd.                           *)
(***************************************************************************)
from_le_bytes(bytes) ==
    [i \in 1..(8 * Len(bytes)) |-> (bytes[((i - 1) \div 8) + 1] \div Pow2((i - 1) % 8)) % 2]

from_be_bytes(bytes) == from_le_bytes(Reverse(bytes))

\* the loop of uleb128_decode / leb128_decode; n bytes are consumed so far
RECURSIVE leb_loop(_, _, _, _, _)
leb_loop(s, w, result, shift, n) ==
    IF shift >= w THEN [ok |-> FALSE, err |-> "VarIntError", val |-> None, n |-> n, shift |-> shift, byte |-> 0]
    ELSE IF n >= Len(s) THEN [ok |-> FALSE, err |-> "UnexpectedEnd", val |-> None, n |-> n, shift |-> shift, byte |-> 0]
    ELSE LET byte == s[n + 1]
             r2 == BitOr(result, Shl(FromNat(byte % 128, w), shift))
         IN  IF byte < 128
             THEN [ok |-> TRUE, err |-> None, val |-> r2, n |-> n + 1, shift |-> shift + 7, byte |-> byte]
             ELSE leb_loop(s, w, r2, shift + 7, n + 1)

\* uleb128_decode whose loop admits one group more than the type holds
uleb128_decode_one_more(s, w) ==
    LET r == leb_loop(s, w + 7, Zeros(w + 7), 0, 0)
    IN  IF r.ok THEN Ok(SubSeq(r.val, 1, w), r.n) ELSE Err(r.err, r.n)

uleb128_decode(s, w) ==
    LET r == leb_loop(s, w, Zeros(w), 0, 0)
    IN  IF r.ok THEN Ok(r.val, r.n) ELSE Err(r.err, r.n)

\* leb128_decode with the sign extension after the loop left out
leb128_decode_no_sign_extension(s, w) ==
    LET r == leb_loop(s, w, Zeros(w), 0, 0)
    IN  IF r.ok THEN Ok(r.val, r.n) ELSE Err(r.err, r.n)

leb128_decode(s, w) ==
    LET r == leb_loop(s, w, Zeros(w), 0, 0)
    IN  IF ~r.ok THEN Err(r.err, r.n)
        ELSE IF r.shift < w /\ (r.byte \div 64) % 2 = 1
             THEN Ok(BitOr(r.val, Shl(Ones(w), r.shift)), r.n)
             ELSE Ok(r.val, r.n)

fixed_read(s, w, endianness) ==
    IF Len(s) < w \div 8 THEN Err("UnexpectedEnd", 0)
    ELSE LET bytes == SubSeq(s, 1, w \div 8)
         IN  Ok(IF endianness = "BigEndian" THEN from_be_bytes(bytes) ELSE from_le_bytes(bytes),
                w \div 8)

u_read_direct(s, w, num_encoding, endianness) ==
    IF num_encoding = "Fixed" THEN fixed_read(s, w, endianness)
    ELSE uleb128_decode(s, w)

unzigzag(unsigned) ==
    IF unsigned[1] = 1 THEN BitNot(Shr(unsigned, 1)) ELSE Shr(unsigned, 1)

i_read_direct(s, w, num_encoding, endianness) ==
    CASE num_encoding = "Fixed" -> fixed_read(s, w, endianness)
      [] num_encoding = "Leb128" -> leb128_decode(s, w)
      [] num_encoding = "ProtobufWasteful" -> uleb128_decode(s, w)
      [] num_encoding = "ProtobufZigzag" ->
            LET r == uleb128_decode(s, w)
            IN  IF r.ok THEN Ok(unzigzag(r.val), r.n) ELSE r

(***************************************************************************)
(* Settings and Context                                                    *)
(***************************************************************************)
\* usize / isize of the target: BitWidth::native() on a 64-bit target
UsizeBits == 64

StrEncodings == {"Utf8", "Utf16", "Utf32"}

NumRepr_new == [endianness |-> "LittleEndian", num_encoding |-> "Fixed"]

SizeRepr_new ==
    [endianness |-> "LittleEndian", num_encoding |-> "Fixed", width |-> 64,
     max_size |-> Ones(UsizeBits)]

VariantRepr_new == [endianness |-> "LittleEndian", num_encoding |-> "Fixed", width |-> 32]

StringRepr_new == [str_encoding |-> "Utf8", endianness |-> "LittleEndian"]

BinSettings_new ==
    [num_repr |-> NumRepr_new, size_repr |-> SizeRepr_new,
     variant_repr |-> VariantRepr_new, string_repr |-> StringRepr_new]

Context_with_settings(settings) ==
    [user |-> None, settings |-> settings, bool_flatten |-> None, variant_flatten |-> None,
     size_flatten |-> None]

Context_with_user_data(settings, data) ==
    [user |-> Some(data), settings |-> settings, bool_flatten |-> None,
     variant_flatten |-> None, size_flatten |-> None]

Context_new == Context_with_settings(BinSettings_new)

\* what the model remembers of the last call: its name, its arguments, its
\* result, and the context and stream it started from
Call(op, args, res, c, s) == [op |-> op, args |-> args, res |-> res, ctxt |-> c, stream |-> s]

NoCall == Call("init", None, None, None, None)

(***************************************************************************)
(* Integer round trip: write_T_with on an empty stream, then read_T_with   *)
(***************************************************************************)
MinSigned(w) == [i \in 1..w |-> IF i = w THEN 1 ELSE 0]

MaxSigned(w) == [i \in 1..w |-> IF i = w THEN 0 ELSE 1]

\* 0x..04030201: every byte differs, so that a byte order mistake shows
ByteRamp(w) == from_le_bytes([k \in 1..(w \div 8) |-> k])

IntValues(w) ==
    {FromInt(n, w) : n \in (-MaxMag)..MaxMag}
        \cup {MinSigned(w), MaxSigned(w), ByteRamp(w)}
        \cup {Shl(Ones(w), k) : k \in 0..(w - 1)}
        \cup {Shr(Ones(w), k) : k \in 0..(w - 1)}

IntArgs ==
    {[signed |-> sg, w |-> w, x |-> x, num_encoding |-> enc, endianness |-> en] :
        sg \in BOOLEAN, w \in BitWidths, x \in {None}, enc \in NumEncodings, en \in Endiannesses}

write_int_with(signed, value, num_encoding, endianness) ==
    IF signed THEN i_write_direct(value, num_encoding, endianness)
    ELSE u_write_direct(value, num_encoding, endianness)

read_int_with(signed, s, w, num_encoding, endianness) ==
    IF signed THEN i_read_direct(s, w, num_encoding, endianness)
    ELSE u_read_direct(s, w, num_encoding, endianness)

Drop(s, n) == SubSeq(s, n + 1, Len(s))

InitInt ==
    /\ \E a \in IntArgs : \E x \in IntValues(a.w) : arg = [a EXCEPT !.x = x]
    /\ ctxt = Context_new
    /\ stream = <<>>
    /\ last = NoCall
    /\ frames = <<>>

IntWrite ==
    /\ last.op = "init"
    /\ LET r == write_int_with(arg.signed, arg.x, arg.num_encoding, arg.endianness)
       IN  /\ stream' = stream \o r.val
           /\ last' = Call("write_int", arg, r, ctxt, stream)
    /\ UNCHANGED <<ctxt, arg, frames>>

IntRead ==
    /\ last.op = "write_int"
    /\ LET r == read_int_with(arg.signed, stream, arg.w, arg.num_encoding, arg.endianness)
       IN  /\ stream' = Drop(stream, r.n)
           /\ last' = Call("read_int", arg, r, ctxt, stream)
    /\ UNCHANGED <<ctxt, arg, frames>>

NextInt == IntWrite \/ IntRead

SpecInt == InitInt /\ [][NextInt]_vars

\* C1: an integer written with write_T_with on an empty stream is read back
\* by read_T_with under the same encoding and endianness as Ok(x), and the
\* read consumes exactly the bytes that were written.
IntRoundTrip ==
    last.op = "read_int" =>
        /\ last.res.ok
        /\ last.res.val = arg.x
        /\ last.res.n = Len(last.stream)
        /\ stream = <<>>

IntRoundTripWitness ==
    /\ last.op = "read_int"
    /\ arg.signed /\ arg.w = 128 /\ arg.num_encoding = "Leb128"
    /\ arg.x = MinSigned(128)
    /\ last.res.ok /\ last.res.n = 19

(***************************************************************************)
(* Chars: write_char / read_char under settings.string_repr                *)
(***************************************************************************)
\* char::encode_utf8
encode_utf8(c) ==
    IF c < 128 THEN <<c>>
    ELSE IF c < 2048 THEN <<192 + (c \div 64), 128 + (c % 64)>>
    ELSE IF c < 65536 THEN <<224 + (c \div 4096), 128 + ((c \div 64) % 64), 128 + (c % 64)>>
    ELSE <<240 + (c \div 262144), 128 + ((c \div 4096) % 64), 128 + ((c \div 64) % 64),
           128 + (c % 64)>>

\* char::encode_utf16
encode_utf16(c) ==
    IF c < 65536 THEN <<c>>
    ELSE <<55296 + ((c - 65536) \div 1024), 56320 + ((c - 65536) % 1024)>>

write_char(c, value) ==
    LET endianness == c.settings.string_repr.endianness
        str_encoding == c.settings.string_repr.str_encoding
        units == encode_utf16(value)
    IN  CASE str_encoding = "Utf8" -> Wrote(encode_utf8(value))
          [] str_encoding = "Utf16" ->
                Wrote(IF Len(units) = 1
                      THEN u_write_direct(FromNat(units[1], 16), "Fixed", endianness).val
                      ELSE u_write_direct(FromNat(units[1], 16), "Fixed", endianness).val
                               \o u_write_direct(FromNat(units[2], 16), "Fixed", endianness).val)
          [] str_encoding = "Utf32" ->
                u_write_direct(FromNat(value, 32), "Fixed", endianness)

\* u8::leading_ones
leading_ones(byte) ==
    IF byte < 128 THEN 0 ELSE IF byte < 192 THEN 1 ELSE IF byte < 224 THEN 2
    ELSE IF byte < 240 THEN 3 ELSE IF byte < 248 THEN 4 ELSE IF byte < 252 THEN 5
    ELSE IF byte < 254 THEN 6 ELSE IF byte < 255 THEN 7 ELSE 8

\* char::from_u32 of a u32 held as 32 bits: the scalar value, or None
char_from_u32(ch) ==
    IF \E i \in 22..32 : ch[i] = 1 THEN None
    ELSE LET n == BitsToNat(ch, 1, 21)
         IN  IF n > 1114111 \/ (55296 <= n /\ n <= 57343) THEN None ELSE Some(n)

\* `char::from_u32(ch).ok_or(e)`
char_or(ch, e, n) ==
    IF char_from_u32(ch) = None THEN Err(e, n) ELSE Ok(Unwrap(char_from_u32(ch)), n)

\* the `for _ in 0..add` loop of the Utf8 branch; n bytes are consumed so far
RECURSIVE utf8_continuation(_, _, _, _, _)
utf8_continuation(s, add, ch, shift, n) ==
    IF add = 0 THEN char_or(ch, "InvalidUtf8", n)
    ELSE IF n >= Len(s) THEN Err("UnexpectedEnd", n)
    ELSE LET buf == s[n + 1]
         IN  IF leading_ones(buf) # 1 THEN Err("InvalidUtf8", n + 1)
             ELSE utf8_continuation(s, add - 1,
                      BitOr(Shl(ch, shift + 6), FromNat(buf % 64, 32)), shift + 6, n + 1)

read_char_utf8(s) ==
    IF Len(s) = 0 THEN Err("UnexpectedEnd", 0)
    ELSE LET buf == s[1]
             leading == leading_ones(buf)
         IN  IF leading = 0 THEN utf8_continuation(s, 0, FromNat(buf % 128, 32), 0, 1)
             ELSE IF leading = 1 \/ leading > 4 THEN Err("InvalidUtf8", 1)
             ELSE utf8_continuation(s, leading - 1,
                      FromNat(buf % Pow2(8 - (leading + 1)), 32), 0, 1)

read_char_utf16(s, endianness) ==
    LET r1 == u_read_direct(s, 16, "Fixed", endianness)
        buf == BitsToNat(r1.val, 1, 16)
        r2 == u_read_direct(Drop(s, 2), 16, "Fixed", endianness)
        low_surrogate == BitsToNat(r2.val, 1, 16)
    IN  IF ~r1.ok THEN r1
        ELSE IF 55296 <= buf /\ buf <= 56319
        THEN IF ~r2.ok THEN [r2 EXCEPT !.n = 2]
             ELSE IF ~(56320 <= low_surrogate /\ low_surrogate <= 57343)
             THEN Err("InvalidUtf16", 4)
             ELSE char_or(FromNat((((buf - 55296) % 1024) * 1024) + ((low_surrogate - 56320) % 1024), 32),
                          "InvalidUtf16", 4)
        ELSE IF 56320 <= buf /\ buf <= 57343 THEN Err("InvalidUtf16", 2)
        ELSE char_or(FromNat(buf, 32), "InvalidUtf16", 2)

read_char_utf32(s, endianness) ==
    LET r == u_read_direct(s, 32, "Fixed", endianness)
    IN  IF ~r.ok THEN r ELSE char_or(r.val, "InvalidUtf32", 4)

read_char(c, s) ==
    LET endianness == c.settings.string_repr.endianness
        str_encoding == c.settings.string_repr.str_encoding
    IN  CASE str_encoding = "Utf8" -> read_char_utf8(s)
          [] str_encoding = "Utf16" -> read_char_utf16(s, endianness)
          [] str_encoding = "Utf32" -> read_char_utf32(s, endianness)

\* the Unicode scalar values the char round trip is tried on
IsScalar(c) == c <= 1114111 /\ ~(55296 <= c /\ c <= 57343)

BoundaryChars == {0, 127, 128, 2047, 2048, 55295, 57344, 65535, 65536, 1114111}

Chars == {c \in (0..MaxCodepoint) \cup BoundaryChars \cup {233, 8364, 128512} : IsScalar(c)}

InitChar ==
    /\ arg \in Chars
    /\ \E se \in StrEncodings, en \in Endiannesses :
          ctxt = Context_with_settings(
                    [BinSettings_new EXCEPT !.string_repr =
                        [str_encoding |-> se, endianness |-> en]])
    /\ stream = <<>>
    /\ last = NoCall
    /\ frames = <<>>

CharWrite ==
    /\ last.op = "init"
    /\ LET r == write_char(ctxt, arg)
       IN  /\ stream' = stream \o r.val
           /\ last' = Call("write_char", arg, r, ctxt, stream)
    /\ UNCHANGED <<ctxt, arg, frames>>

CharRead ==
    /\ last.op = "write_char"
    /\ LET r == read_char(ctxt, stream)
       IN  /\ stream' = Drop(stream, r.n)
           /\ last' = Call("read_char", None, r, ctxt, stream)
    /\ UNCHANGED <<ctxt, arg, frames>>

NextChar == CharWrite \/ CharRead

SpecChar == InitChar /\ [][NextChar]_vars

\* C2: a char written with write_char is read back by read_char under the
\* same string_repr as Ok(c), and the read consumes exactly the bytes
\* written.
CharRoundTrip ==
    last.op = "read_char" =>
        /\ last.res.ok
        /\ last.res.val = arg
        /\ last.res.n = Len(last.stream)
        /\ stream = <<>>

(***************************************************************************)
(* Opaque: the 128-bit carrier of a size or variant, with its sign; the    *)
(* narrowing checks the range of the destination type                      *)
(***************************************************************************)
OpaqueBits == 128

Opaque_from_unsigned(value) == [signed |-> FALSE, bits |-> ZeroExt(value, OpaqueBits)]

Opaque_from_signed(value) == [signed |-> TRUE, bits |-> SignExt(value, OpaqueBits)]

Opaque_negative(o) == o.signed /\ o.bits[OpaqueBits] = 1

\* Opaque -> uN
Opaque_try_into_unsigned(o, w) ==
    IF Opaque_negative(o) \/ (\E i \in (w + 1)..OpaqueBits : o.bits[i] = 1)
    THEN Err("ConversionError", 0)
    ELSE Ok(SubSeq(o.bits, 1, w), 0)

\* Opaque -> iN
Opaque_try_into_signed(o, w) ==
    IF Opaque_negative(o)
    THEN IF \E i \in w..OpaqueBits : o.bits[i] = 0
         THEN Err("ConversionError", 0) ELSE Ok(SubSeq(o.bits, 1, w), 0)
    ELSE IF \E i \in w..OpaqueBits : o.bits[i] = 1
         THEN Err("ConversionError", 0) ELSE Ok(SubSeq(o.bits, 1, w), 0)

Opaque_try_into(o, signed, w) ==
    IF signed THEN Opaque_try_into_signed(o, w) ELSE Opaque_try_into_unsigned(o, w)

(***************************************************************************)
(* Context: the flatten accessors consume the channel                      *)
(***************************************************************************)
Context_reset(c, options) ==
    [c EXCEPT !.settings = options, !.bool_flatten = None, !.variant_flatten = None,
              !.size_flatten = None]

\* a bool_flatten accessor that does not consume the channel
Context_bool_flatten_peek(c) == [ctxt |-> c, val |-> c.bool_flatten]

\* `replace(&mut self.bool_flatten, None)`: the context afterwards and the value returned
Context_bool_flatten(c) == [ctxt |-> [c EXCEPT !.bool_flatten = None], val |-> c.bool_flatten]

Context_variant_flatten(c) ==
    [ctxt |-> [c EXCEPT !.variant_flatten = None], val |-> c.variant_flatten]

\* a size_flatten accessor that does not consume the channel
Context_size_flatten_peek(c) == [ctxt |-> c, val |-> c.size_flatten]

Context_size_flatten(c) == [ctxt |-> [c EXCEPT !.size_flatten = None], val |-> c.size_flatten]

(***************************************************************************)
(* Encoder, writing.  An operator returns the context after the call and   *)
(* the result; the val of an Ok write is the bytes it put on the stream.   *)
(***************************************************************************)
Ret(c, res) == [ctxt |-> c, res |-> res]

\* a write that keeps the low bits of a value too wide for the configured width
write_narrowed_truncating(o, signed, width, encoding, endianness) ==
    write_int_with(signed, SubSeq(o.bits, 1, width), encoding, endianness)

\* the `opaque.try_into()?` of a write followed by write_uN_with / write_iN_with
write_narrowed(o, signed, width, encoding, endianness) ==
    LET conv == Opaque_try_into(o, signed, width)
    IN  IF ~conv.ok THEN conv
        ELSE write_int_with(signed, conv.val, encoding, endianness)

\* write_usize without the max_size check
write_usize_no_max_check(c, value) ==
    LET f == Context_size_flatten(c)
        repr == c.settings.size_repr
    IN  IF f.val # None
        THEN IF Unwrap(f.val) # value
             THEN Ret(f.ctxt, ErrWith("LenMismatch", Unwrap(f.val), value, 0))
             ELSE Ret(f.ctxt, Wrote(<<>>))
        ELSE Ret(f.ctxt, write_narrowed(Opaque_from_unsigned(value), FALSE, repr.width,
                                        repr.num_encoding, repr.endianness))

write_usize(c, value) ==
    LET f == Context_size_flatten(c)
        repr == c.settings.size_repr
    IN  IF f.val # None
        THEN IF Unwrap(f.val) # value
             THEN Ret(f.ctxt, ErrWith("LenMismatch", Unwrap(f.val), value, 0))
             ELSE Ret(f.ctxt, Wrote(<<>>))
        ELSE IF ULess(repr.max_size, value)
             THEN Ret(f.ctxt, ErrWith("MaxSizeExceeded", repr.max_size, value, 0))
             ELSE Ret(f.ctxt, write_narrowed(Opaque_from_unsigned(value), FALSE, repr.width,
                                             repr.num_encoding, repr.endianness))

\* write_isize that takes the size flatten channel as write_usize does
write_isize_takes_size_flatten(c, value) ==
    LET f == Context_size_flatten(c)
        repr == c.settings.size_repr
    IN  Ret(f.ctxt, write_narrowed(Opaque_from_signed(value), TRUE, repr.width,
                                   repr.num_encoding, repr.endianness))

write_isize(c, value) ==
    LET repr == c.settings.size_repr
    IN  Ret(c, write_narrowed(Opaque_from_signed(value), TRUE, repr.width,
                              repr.num_encoding, repr.endianness))

\* write_variant reporting the mismatch with expected and got exchanged
write_variant_swapped(c, signed, value) ==
    LET f == Context_variant_flatten(c)
        repr == c.settings.variant_repr
    IN  IF f.val # None
        THEN IF value # Unwrap(f.val)
             THEN Ret(f.ctxt, ErrWith("VariantMismatch", value, Unwrap(f.val), 0))
             ELSE Ret(f.ctxt, Wrote(<<>>))
        ELSE Ret(f.ctxt, write_narrowed(value, signed, repr.width, repr.num_encoding,
                                        repr.endianness))

\* write_uvariant (signed = FALSE) and write_ivariant (signed = TRUE); value
\* is the Opaque made from the caller's value
write_variant(c, signed, value) ==
    LET f == Context_variant_flatten(c)
        repr == c.settings.variant_repr
    IN  IF f.val # None
        THEN IF value # Unwrap(f.val)
             THEN Ret(f.ctxt, ErrWith("VariantMismatch", Unwrap(f.val), value, 0))
             ELSE Ret(f.ctxt, Wrote(<<>>))
        ELSE Ret(f.ctxt, write_narrowed(value, signed, repr.width, repr.num_encoding,
                                        repr.endianness))

write_uvariant(c, value) == write_variant(c, FALSE, value)

write_ivariant(c, value) == write_variant(c, TRUE, value)

write_byte(byte) == Wrote(<<byte>>)

\* write_bool that goes on to write its byte after a flatten match
write_bool_writes_after_match(c, value) ==
    LET f == Context_bool_flatten(c)
    IN  IF f.val # None /\ Unwrap(f.val) # value
        THEN Ret(f.ctxt, ErrWith("BoolMismatch", Unwrap(f.val), value, 0))
        ELSE Ret(f.ctxt, write_byte(IF value THEN 1 ELSE 0))

write_bool(c, value) ==
    LET f == Context_bool_flatten(c)
    IN  IF f.val # None
        THEN IF Unwrap(f.val) # value
             THEN Ret(f.ctxt, ErrWith("BoolMismatch", Unwrap(f.val), value, 0))
             ELSE Ret(f.ctxt, Wrote(<<>>))
        ELSE Ret(f.ctxt, write_byte(IF value THEN 1 ELSE 0))

(***************************************************************************)
(* Encoder, reading.  s is the unread part of the stream; the n of the     *)
(* result is the number of bytes the call consumed.                        *)
(***************************************************************************)
\* read_uN_with / read_iN_with at the configured width, then Opaque::from and
\* the `try_into()` towards the type asked for
read_narrowed(s, rsigned, width, encoding, endianness, signed, w) ==
    LET r == read_int_with(rsigned, s, width, encoding, endianness)
        o == IF rsigned THEN Opaque_from_signed(r.val) ELSE Opaque_from_unsigned(r.val)
        conv == Opaque_try_into(o, signed, w)
    IN  IF ~r.ok THEN r
        ELSE IF ~conv.ok THEN [conv EXCEPT !.n = r.n]
        ELSE Ok(conv.val, r.n)

\* read_usize rejecting a size equal to max_size
read_usize_rejects_max(c, s) ==
    LET f == Context_size_flatten(c)
        repr == c.settings.size_repr
        r == read_narrowed(s, FALSE, repr.width, repr.num_encoding, repr.endianness,
                           FALSE, UsizeBits)
    IN  IF f.val # None THEN Ret(f.ctxt, Ok(Unwrap(f.val), 0))
        ELSE IF ~r.ok THEN Ret(f.ctxt, r)
        ELSE IF ~ULess(r.val, repr.max_size)
             THEN Ret(f.ctxt, ErrWith("MaxSizeExceeded", repr.max_size, r.val, r.n))
             ELSE Ret(f.ctxt, r)

read_usize(c, s) ==
    LET f == Context_size_flatten(c)
        repr == c.settings.size_repr
        r == read_narrowed(s, FALSE, repr.width, repr.num_encoding, repr.endianness,
                           FALSE, UsizeBits)
    IN  IF f.val # None THEN Ret(f.ctxt, Ok(Unwrap(f.val), 0))
        ELSE IF ~r.ok THEN Ret(f.ctxt, r)
        ELSE IF ULess(repr.max_size, r.val)
             THEN Ret(f.ctxt, ErrWith("MaxSizeExceeded", repr.max_size, r.val, r.n))
             ELSE Ret(f.ctxt, r)

read_isize(c, s) ==
    LET repr == c.settings.size_repr
    IN  Ret(c, read_narrowed(s, TRUE, repr.width, repr.num_encoding, repr.endianness,
                             TRUE, UsizeBits))

\* read_uvariant::<V> for an unsigned V of w bits
read_uvariant(c, s, w) ==
    LET f == Context_variant_flatten(c)
        repr == c.settings.variant_repr
    IN  IF f.val # None THEN Ret(f.ctxt, Opaque_try_into(Unwrap(f.val), FALSE, w))
        ELSE Ret(f.ctxt, read_narrowed(s, FALSE, repr.width, repr.num_encoding,
                                       repr.endianness, FALSE, w))

\* read_ivariant::<V> for a signed V of w bits; at Bit8 the byte is read
\* with read_u8_with
read_ivariant(c, s, w) ==
    LET f == Context_variant_flatten(c)
        repr == c.settings.variant_repr
    IN  IF f.val # None THEN Ret(f.ctxt, Opaque_try_into(Unwrap(f.val), TRUE, w))
        ELSE Ret(f.ctxt, read_narrowed(s, repr.width # 8, repr.width, repr.num_encoding,
                                       repr.endianness, TRUE, w))

read_byte(s) == IF Len(s) = 0 THEN Err("UnexpectedEnd", 0) ELSE Ok(s[1], 1)

\* read_bool that reads its byte from the stream even when the channel is armed
read_bool_reads_when_armed(c, s) ==
    LET f == Context_bool_flatten(c)
        r == read_byte(s)
    IN  IF ~r.ok THEN Ret(f.ctxt, r)
        ELSE IF r.val = 0 THEN Ret(f.ctxt, Ok(FALSE, 1))
        ELSE IF r.val = 1 THEN Ret(f.ctxt, Ok(TRUE, 1))
        ELSE Ret(f.ctxt, Err("InvalidBool", 1))

read_bool(c, s) ==
    LET f == Context_bool_flatten(c)
        r == read_byte(s)
    IN  IF f.val # None THEN Ret(f.ctxt, Ok(Unwrap(f.val), 0))
        ELSE IF ~r.ok THEN Ret(f.ctxt, r)
        ELSE IF r.val = 0 THEN Ret(f.ctxt, Ok(FALSE, 1))
        ELSE IF r.val = 1 THEN Ret(f.ctxt, Ok(TRUE, 1))
        ELSE Ret(f.ctxt, Err("InvalidBool", 1))

(***************************************************************************)
(* The encoder as a state machine.  The encoder is built over a duplex     *)
(* stream: `stream` holds the bytes still to be read, the bytes a call     *)
(* writes go to the other end and are the val of its result.  The machine  *)
(* is driven by the primitive operations, by the arming of a flatten       *)
(* channel and by reset.                                                   *)
(***************************************************************************)
usize(n) == FromNat(n, UsizeBits)

isize(n) == FromInt(n, UsizeBits)

Settings(en, enc, swidth, max, vwidth) ==
    [BinSettings_new EXCEPT
        !.size_repr = [endianness |-> en, num_encoding |-> enc, width |-> swidth,
                       max_size |-> max],
        !.variant_repr = [endianness |-> en, num_encoding |-> enc, width |-> vwidth]]

\* the settings an encoder is built or reset with
SettingsSet ==
    {Settings("LittleEndian", "Fixed", 8, usize(3), 8),
     Settings("BigEndian", "Fixed", 16, Ones(UsizeBits), 16),
     Settings("LittleEndian", "Leb128", 64, usize(256), 32),
     Settings("BigEndian", "ProtobufZigzag", 128, usize(3), 64)}

\* the bytes an input is made of: true, a small size, a byte with only the
\* continuation bit set, and 0xFF
InputBytes == {1, 3, 128, 255}

RECURSIVE SeqsUpTo(_, _)
SeqsUpTo(S, n) ==
    IF n = 0 THEN {<<>>}
    ELSE SeqsUpTo(S, n - 1) \cup {Append(q, b) : q \in SeqsUpTo(S, n - 1), b \in S}

InputStreams == SeqsUpTo(InputBytes, MaxInput)

SizeValues == {usize(3), usize(256), usize(65536)}

IsizeValues == {isize(-1), isize(256)}

UVariantValues == {Opaque_from_unsigned(FromNat(1, 32)), Opaque_from_unsigned(FromNat(300, 32))}

IVariantValues ==
    {Opaque_from_signed(FromInt(-1, 32)), Opaque_from_signed(FromInt(1, 32)),
     Opaque_from_signed(FromInt(-129, 32))}

\* the value each channel is armed with
SizeFlattenValues == {usize(256)}

BoolFlattenValues == {TRUE}

VariantFlattenValues == {Opaque_from_unsigned(FromNat(300, 32))}

\* the widths of the type V a variant is read into
VariantTypes == {8, 32}

Init ==
    /\ \E s \in SettingsSet : ctxt = Context_with_settings(s)
    /\ stream \in InputStreams
    /\ last = NoCall
    /\ arg = None
    /\ frames = <<>>

\* a call of a write operation that returned ret
DoWrite(op, args, ret) ==
    /\ ctxt' = ret.ctxt
    /\ last' = Call(op, args, ret.res, ctxt, stream)
    /\ UNCHANGED <<stream, arg, frames>>

\* a call of a read operation that returned ret
DoRead(op, args, ret) ==
    /\ ctxt' = ret.ctxt
    /\ stream' = Drop(stream, ret.res.n)
    /\ last' = Call(op, args, ret.res, ctxt, stream)
    /\ UNCHANGED <<arg, frames>>

SetSizeFlatten ==
    \E v \in SizeFlattenValues :
        /\ ctxt' = [ctxt EXCEPT !.size_flatten = Some(v)]
        /\ last' = Call("set_size_flatten", v, None, ctxt, stream)
        /\ UNCHANGED <<stream, arg, frames>>

SetBoolFlatten ==
    \E v \in BoolFlattenValues :
        /\ ctxt' = [ctxt EXCEPT !.bool_flatten = Some(v)]
        /\ last' = Call("set_bool_flatten", v, None, ctxt, stream)
        /\ UNCHANGED <<stream, arg, frames>>

SetVariantFlatten ==
    \E v \in VariantFlattenValues :
        /\ ctxt' = [ctxt EXCEPT !.variant_flatten = Some(v)]
        /\ last' = Call("set_variant_flatten", v, None, ctxt, stream)
        /\ UNCHANGED <<stream, arg, frames>>

Reset ==
    \E s \in SettingsSet :
        /\ ctxt' = Context_reset(ctxt, s)
        /\ last' = Call("reset", s, None, ctxt, stream)
        /\ UNCHANGED <<stream, arg, frames>>

WriteUsize == \E v \in SizeValues : DoWrite("write_usize", v, write_usize(ctxt, v))

WriteIsize == \E v \in IsizeValues : DoWrite("write_isize", v, write_isize(ctxt, v))

WriteUvariant == \E v \in UVariantValues : DoWrite("write_uvariant", v, write_uvariant(ctxt, v))

WriteIvariant == \E v \in IVariantValues : DoWrite("write_ivariant", v, write_ivariant(ctxt, v))

WriteBool == \E v \in BOOLEAN : DoWrite("write_bool", v, write_bool(ctxt, v))

ReadUsize == DoRead("read_usize", None, read_usize(ctxt, stream))

ReadIsize == DoRead("read_isize", None, read_isize(ctxt, stream))

ReadUvariant == \E w \in VariantTypes : DoRead("read_uvariant", w, read_uvariant(ctxt, stream, w))

ReadIvariant == \E w \in VariantTypes : DoRead("read_ivariant", w, read_ivariant(ctxt, stream, w))

ReadBool == DoRead("read_bool", None, read_bool(ctxt, stream))

Next ==
    \/ SetSizeFlatten \/ SetBoolFlatten \/ SetVariantFlatten \/ Reset
    \/ WriteUsize \/ WriteIsize \/ WriteUvariant \/ WriteIvariant \/ WriteBool
    \/ ReadUsize \/ ReadIsize \/ ReadUvariant \/ ReadIvariant \/ ReadBool

Spec == Init /\ [][Next]_vars

(***************************************************************************)
(* The flatten channels and max_size, as properties of the last call       *)
(***************************************************************************)
FlattenWrites == {"write_usize", "write_bool", "write_uvariant", "write_ivariant"}

FlattenReads == {"read_usize", "read_bool", "read_uvariant", "read_ivariant"}

\* the flatten channel an operation consults
KindOf(op) ==
    CASE op \in {"write_usize", "read_usize"} -> "size"
      [] op \in {"write_bool", "read_bool"} -> "bool"
      [] op \in {"write_uvariant", "write_ivariant", "read_uvariant", "read_ivariant"} -> "variant"
      [] OTHER -> "none"

Channel(c, kind) ==
    CASE kind = "size" -> c.size_flatten
      [] kind = "bool" -> c.bool_flatten
      [] kind = "variant" -> c.variant_flatten

MismatchKind(kind) ==
    CASE kind = "size" -> "LenMismatch"
      [] kind = "bool" -> "BoolMismatch"
      [] kind = "variant" -> "VariantMismatch"

\* the channel of the last call as it was when the call started, and its value
ArmedBefore == Channel(last.ctxt, KindOf(last.op)) # None

ArmedValue == Unwrap(Channel(last.ctxt, KindOf(last.op)))

ChannelNow == Channel(ctxt, KindOf(last.op))

MismatchedWrite == last.op \in FlattenWrites /\ ArmedBefore /\ last.args # ArmedValue

MatchedWrite == last.op \in FlattenWrites /\ ArmedBefore /\ last.args = ArmedValue

ArmedRead == last.op \in FlattenReads /\ ArmedBefore

\* C3, as claimed: after a write whose argument differs from the armed value
\* the channel is still Armed(v).
FlattenMismatchKeepsArmed == MismatchedWrite => ChannelNow = Some(ArmedValue)

\* C3, amended: after a write whose argument differs from the armed value the
\* call has returned an error and the channel is Absent.
FlattenMismatchDisarms == MismatchedWrite => (~last.res.ok /\ ChannelNow = None)

FlattenMismatchDisarmsWitness ==
    /\ last.op = "write_usize"
    /\ last.ctxt.size_flatten = Some(usize(256))
    /\ last.args = usize(3)
    /\ ~last.res.ok
    /\ ctxt.size_flatten = None

\* C4: after one read or write of the matching kind made while the channel
\* is Armed, the channel is Absent, whatever the call returned.
FlattenAbsentAfterOneOp ==
    (last.op \in (FlattenWrites \cup FlattenReads) /\ ArmedBefore) => ChannelNow = None

FlattenAbsentAfterOneOpWitness ==
    /\ last.op = "read_bool"
    /\ last.ctxt.bool_flatten = Some(TRUE)
    /\ last.res.ok
    /\ ctxt.bool_flatten = None

\* the Opaque of a value read into a variant type
OpaqueOfRead(op, value) ==
    IF op = "read_ivariant" THEN Opaque_from_signed(value) ELSE Opaque_from_unsigned(value)

\* the value a read returned is the armed value
ReturnedArmedValue ==
    IF KindOf(last.op) = "variant"
    THEN OpaqueOfRead(last.op, last.res.val).bits = ArmedValue.bits
    ELSE last.res.val = ArmedValue

\* a read made with its channel Absent went to the stream: it consumed bytes
\* or met the end of the stream
UnflattenedReadUsesStream ==
    (last.op \in FlattenReads /\ ~ArmedBefore) =>
        (last.res.n >= 1 \/ (~last.res.ok /\ last.res.err.kind = "UnexpectedEnd"))

\* C5, as claimed: a read made while the channel is Armed(v) returns v, reads
\* no byte and leaves the channel Absent; with the channel Absent the read
\* decodes from the stream.
FlattenedReadReturnsValue ==
    /\ ArmedRead =>
          /\ last.res.ok /\ ReturnedArmedValue
          /\ last.res.n = 0 /\ stream = last.stream
          /\ ChannelNow = None
    /\ UnflattenedReadUsesStream

\* C5, amended: a read made while the channel is Armed(v) reads no byte and
\* leaves the channel Absent; read_usize and read_bool return v, a variant
\* read returns v converted to the type asked for or, when v is not
\* representable in that type, the conversion error.  With the channel Absent
\* the read decodes from the stream.
FlattenedReadConverts ==
    /\ ArmedRead =>
          /\ last.res.n = 0 /\ stream = last.stream
          /\ ChannelNow = None
          /\ IF last.res.ok THEN ReturnedArmedValue
             ELSE /\ KindOf(last.op) = "variant"
                  /\ last.res.err.kind = "ConversionError"
                  /\ ~Opaque_try_into(ArmedValue, last.op = "read_ivariant", last.args).ok
          /\ (KindOf(last.op) = "variant"
                /\ Opaque_try_into(ArmedValue, last.op = "read_ivariant", last.args).ok)
                  => last.res.ok
    /\ UnflattenedReadUsesStream

FlattenedReadConvertsWitness ==
    /\ last.op = "read_usize"
    /\ last.ctxt.size_flatten = Some(usize(256))
    /\ last.stream # <<>>
    /\ last.res.ok /\ last.res.val = usize(256)
    /\ stream = last.stream

\* C6: a write whose argument equals the armed value returns Ok and writes
\* no byte.
FlattenedWriteIsSilent ==
    MatchedWrite => (last.res.ok /\ last.res.n = 0 /\ last.res.val = <<>>)

FlattenedWriteIsSilentWitness ==
    /\ last.op = "write_usize"
    /\ last.ctxt.size_flatten = Some(usize(256))
    /\ last.args = usize(256)
    /\ last.res.ok

\* C7: a write whose argument w differs from the armed value v fails with the
\* mismatch error of its kind carrying expected = v and got = w, and writes
\* no byte.
FlattenMismatchError ==
    MismatchedWrite =>
        /\ ~last.res.ok
        /\ last.res.err.kind = MismatchKind(KindOf(last.op))
        /\ last.res.err.expected = ArmedValue
        /\ last.res.err.got = last.args
        /\ last.res.n = 0

FlattenMismatchErrorWitness ==
    /\ last.op = "write_uvariant"
    /\ last.ctxt.variant_flatten # None
    /\ last.args # Unwrap(last.ctxt.variant_flatten)
    /\ last.res.err.kind = "VariantMismatch"

MaxSizeBefore == last.ctxt.settings.size_repr.max_size

\* a usize is at most max_size
WithinMax(value) == ~ULess(MaxSizeBefore, value)

\* an isize is at most max_size: it is negative, or at most max_size as a usize
IsizeWithinMax(value) == value[UsizeBits] = 1 \/ WithinMax(value)

\* C8, as claimed: every size read_usize or read_isize returns as Ok, and
\* every size write_usize or write_isize accepts, is at most max_size, also
\* when size_flatten is Armed.
MaxSizeBoundsEverySize ==
    /\ (last.op = "read_usize" /\ last.res.ok) => WithinMax(last.res.val)
    /\ (last.op = "read_isize" /\ last.res.ok) => IsizeWithinMax(last.res.val)
    /\ (last.op = "write_usize" /\ last.res.ok) => WithinMax(last.args)
    /\ (last.op = "write_isize" /\ last.res.ok) => IsizeWithinMax(last.args)

\* C8, amended: with size_flatten Absent, every size read_usize returns as Ok
\* and every size write_usize accepts is at most max_size.
MaxSizeBoundsUnflattenedUsize ==
    /\ (last.op = "read_usize" /\ last.ctxt.size_flatten = None /\ last.res.ok)
          => WithinMax(last.res.val)
    /\ (last.op = "write_usize" /\ last.ctxt.size_flatten = None /\ last.res.ok)
          => WithinMax(last.args)

MaxSizeBoundsUnflattenedUsizeWitness ==
    /\ last.op = "write_usize"
    /\ last.ctxt.size_flatten = None
    /\ last.res.ok
    /\ last.args = MaxSizeBefore
    /\ last.res.n >= 1

\* the size read_usize decodes from the stream the last call started from
DecodedSize ==
    LET repr == last.ctxt.settings.size_repr
    IN  read_narrowed(last.stream, FALSE, repr.width, repr.num_encoding, repr.endianness,
                      FALSE, UsizeBits)

\* C9: with size_flatten Absent, write_usize(v) with v > max_size fails with
\* MaxSizeExceeded{max, requested: v} and writes no byte, and v = max_size is
\* not refused; read_usize fails with MaxSizeExceeded when the size it
\* decodes is greater than max_size and returns a decoded size equal to
\* max_size.
MaxSizeExceededAtTheBound ==
    /\ (last.op = "write_usize" /\ last.ctxt.size_flatten = None) =>
          /\ ~WithinMax(last.args) =>
                /\ ~last.res.ok /\ last.res.n = 0
                /\ last.res.err = [kind |-> "MaxSizeExceeded", expected |-> MaxSizeBefore,
                                   got |-> last.args]
          /\ last.args = MaxSizeBefore =>
                /\ last.res.err.kind # "MaxSizeExceeded"
                /\ Opaque_try_into(Opaque_from_unsigned(last.args), FALSE,
                                   last.ctxt.settings.size_repr.width).ok => last.res.ok
    /\ (last.op = "read_usize" /\ last.ctxt.size_flatten = None /\ DecodedSize.ok) =>
          /\ ~WithinMax(DecodedSize.val) =>
                /\ ~last.res.ok
                /\ last.res.err = [kind |-> "MaxSizeExceeded", expected |-> MaxSizeBefore,
                                   got |-> DecodedSize.val]
          /\ DecodedSize.val = MaxSizeBefore =>
                (last.res.ok /\ last.res.val = MaxSizeBefore)

MaxSizeExceededAtTheBoundWitness ==
    /\ last.op = "read_usize"
    /\ last.ctxt.size_flatten = None
    /\ DecodedSize.ok /\ DecodedSize.val = MaxSizeBefore
    /\ last.res.ok /\ last.res.n >= 1

(***************************************************************************)
(* Generated setting overrides.  The derive macro turns the modifiers of a *)
(* field or item into three lists of statements: save (copy the targeted   *)
(* settings into locals), set (assign the overrides) and restore (assign   *)
(* the locals back).  The generated codec runs save and set, then the body *)
(* with `?` after every call, then restore.  The `flatten` modifier of     *)
(* AllModifiers targets a field outside ctxt.settings and is left out, and *)
(* so is str_len_encoding, whose field this StringRepr does not have.      *)
(***************************************************************************)
Targets == {"num", "size", "variant", "string"}

\* the field of BinSettings a target stands for
TargetRepr(t) ==
    CASE t = "num" -> "num_repr"
      [] t = "size" -> "size_repr"
      [] t = "variant" -> "variant_repr"
      [] t = "string" -> "string_repr"

Modifiers == {"num_encoding", "endianness", "bit_width", "max", "str_encoding"}

\* the field of the representation a modifier assigns
SettingField(m) ==
    CASE m = "bit_width" -> "width"
      [] m = "max" -> "max_size"
      [] OTHER -> m

ModifierGroup_new(target) ==
    [target |-> target, num_encoding |-> None, endianness |-> None, max |-> None,
     bit_width |-> None, str_encoding |-> None]

\* the modifiers a group declares
Present(group) == {m \in Modifiers : group[m] # None}

\* the statements `settings.target.field = value;` for the modifiers in
\* DOMAIN values
Assign(settings, target, values) ==
    [settings EXCEPT ![TargetRepr(target)] =
        [f \in DOMAIN @ |->
            IF \E m \in DOMAIN values : SettingField(m) = f
            THEN values[CHOOSE m \in DOMAIN values : SettingField(m) = f]
            ELSE @[f]]]

\* the locals `__target_modifier` after the save statements
ModifierGroup_save(group, settings) ==
    [m \in Present(group) |-> settings[TargetRepr(group.target)][SettingField(m)]]

ModifierGroup_set(group, settings) ==
    Assign(settings, group.target, [m \in Present(group) |-> Unwrap(group[m])])

\* restore statements that leave max_size as the frame set it
ModifierGroup_restore_without_max(group, saved, settings) ==
    Assign(settings, group.target, [m \in Present(group) \ {"max"} |-> saved[m]])

ModifierGroup_restore(group, saved, settings) ==
    Assign(settings, group.target, [m \in Present(group) |-> saved[m]])

\* AllModifiers::derive: the lists of num, size, variant and string in turn
AllModifiers_save(mods, settings) ==
    [t \in Targets |-> ModifierGroup_save(mods[t], settings)]

AllModifiers_set(mods, settings) ==
    ModifierGroup_set(mods.string,
        ModifierGroup_set(mods.variant,
            ModifierGroup_set(mods.size,
                ModifierGroup_set(mods.num, settings))))

AllModifiers_restore(mods, saved, settings) ==
    ModifierGroup_restore(mods.string, saved.string,
        ModifierGroup_restore(mods.variant, saved.variant,
            ModifierGroup_restore(mods.size, saved.size,
                ModifierGroup_restore(mods.num, saved.num, settings))))

AllModifiers_new == [t \in Targets |-> ModifierGroup_new(t)]

\* #[ende(num: leb128, big_endian; size: max = 15, bit16, little_endian, fixed;
\*        variant: bit128, fixed, big_endian)]
TupleStructModifiers ==
    [AllModifiers_new EXCEPT
        !.num.num_encoding = Some("Leb128"), !.num.endianness = Some("BigEndian"),
        !.size.max = Some(usize(15)), !.size.bit_width = Some(16),
        !.size.endianness = Some("LittleEndian"), !.size.num_encoding = Some("Fixed"),
        !.variant.bit_width = Some(128), !.variant.num_encoding = Some("Fixed"),
        !.variant.endianness = Some("BigEndian")]

\* the modifiers the generated frames are made from
ModifierSets ==
    {TupleStructModifiers,
     [AllModifiers_new EXCEPT
        !.size.max = Some(usize(3)), !.size.num_encoding = Some("Leb128"),
        !.string.str_encoding = Some("Utf16"), !.string.endianness = Some("BigEndian")],
     [AllModifiers_new EXCEPT
        !.num.endianness = Some("LittleEndian"),
        !.variant.bit_width = Some(8), !.variant.num_encoding = Some("Leb128")]}

(***************************************************************************)
(* A derived encode or decode as a state machine: frames is the stack of   *)
(* override frames the call is inside, each with its modifiers and the     *)
(* locals its save statements filled; arg is the call in progress.         *)
(***************************************************************************)
DeriveModes == {"encode", "decode"}

\* the call in progress: whether it is running or how it returned, the
\* settings it started from, the deepest nesting it reached and whether a
\* primitive ran under settings other than those it started from
DeriveCall(status, mode, before, deepest, inner) ==
    [status |-> status, mode |-> mode, before |-> before, deepest |-> deepest,
     inner |-> inner]

NumValues == {FromNat(300, 16)}

\* the inputs a derived decode reads: a small size and a byte with the
\* continuation bit set
DeriveInputs == SeqsUpTo({3, 128}, MaxInput)

InitDerive ==
    /\ \E s \in SettingsSet : ctxt = Context_with_settings(s)
    /\ stream \in DeriveInputs
    /\ last = NoCall
    /\ \E mode \in DeriveModes :
          arg = DeriveCall("running", mode, ctxt.settings, 0, FALSE)
    /\ frames = <<>>

Running(mode) == arg.status = "running" /\ arg.mode = mode

\* save and set of a frame
EnterFrame ==
    /\ arg.status = "running"
    /\ Len(frames) < MaxDepth
    /\ \E mods \in ModifierSets :
          /\ frames' = Append(frames, [mods |-> mods,
                                       saved |-> AllModifiers_save(mods, ctxt.settings)])
          /\ ctxt' = [ctxt EXCEPT !.settings = AllModifiers_set(mods, ctxt.settings)]
          /\ last' = Call("enter", mods, None, ctxt, stream)
    /\ arg' = [arg EXCEPT !.deepest = IF Len(frames') > @ THEN Len(frames') ELSE @]
    /\ UNCHANGED stream

\* restore of the innermost frame, reached when its body returned Ok
LeaveFrame ==
    /\ arg.status = "running"
    /\ frames # <<>>
    /\ LET frame == frames[Len(frames)]
       IN  /\ ctxt' = [ctxt EXCEPT !.settings =
                          AllModifiers_restore(frame.mods, frame.saved, ctxt.settings)]
           /\ last' = Call("leave", frame.mods, None, ctxt, stream)
    /\ frames' = SubSeq(frames, 1, Len(frames) - 1)
    /\ UNCHANGED <<stream, arg>>

\* a primitive of the body that returned ret: on Err the `?` returns from
\* every enclosing generated function at once, and no restore runs
Body(op, args, ret, consumed) ==
    /\ ctxt' = ret.ctxt
    /\ stream' = Drop(stream, consumed)
    /\ last' = Call(op, args, ret.res, ctxt, stream)
    /\ IF ret.res.ok
       THEN /\ arg' = [arg EXCEPT !.inner = @ \/ ctxt.settings # arg.before]
            /\ frames' = frames
       ELSE /\ arg' = [arg EXCEPT !.status = "err"]
            /\ frames' = <<>>

BodyWriteNum ==
    /\ Running("encode")
    /\ \E v \in NumValues :
          \E r \in {write_int_with(FALSE, v, ctxt.settings.num_repr.num_encoding,
                                   ctxt.settings.num_repr.endianness)} :
              Body("write_u16", v, Ret(ctxt, r), 0)

BodyWriteUsize ==
    /\ Running("encode")
    /\ \E v \in SizeValues :
          \E ret \in {write_usize(ctxt, v)} : Body("write_usize", v, ret, 0)

BodyWriteUvariant ==
    /\ Running("encode")
    /\ \E v \in UVariantValues :
          \E ret \in {write_uvariant(ctxt, v)} : Body("write_uvariant", v, ret, 0)

BodyReadNum ==
    /\ Running("decode")
    /\ \E r \in {read_int_with(FALSE, stream, 16, ctxt.settings.num_repr.num_encoding,
                                ctxt.settings.num_repr.endianness)} :
          Body("read_u16", None, Ret(ctxt, r), r.n)

BodyReadUsize ==
    /\ Running("decode")
    /\ \E ret \in {read_usize(ctxt, stream)} : Body("read_usize", None, ret, ret.res.n)

BodyReadUvariant ==
    /\ Running("decode")
    /\ \E w \in VariantTypes :
          \E ret \in {read_uvariant(ctxt, stream, w)} :
              Body("read_uvariant", w, ret, ret.res.n)

\* the outermost generated function returns Ok
ReturnOk ==
    /\ arg.status = "running"
    /\ frames = <<>>
    /\ arg' = [arg EXCEPT !.status = "ok"]
    /\ last' = Call("return", None, None, ctxt, stream)
    /\ UNCHANGED <<ctxt, stream, frames>>

\* the next encode or decode on the same encoder; after an Err the caller
\* first resets the context
BeginCall ==
    /\ arg.status # "running"
    /\ \E s \in SettingsSet, mode \in DeriveModes :
          /\ ctxt' = IF arg.status = "err" THEN Context_reset(ctxt, s) ELSE ctxt
          /\ arg' = DeriveCall("running", mode, ctxt'.settings, 0, FALSE)
          /\ last' = Call("begin", mode, None, ctxt, stream)
    /\ UNCHANGED <<stream, frames>>

NextDerive ==
    \/ EnterFrame \/ LeaveFrame \/ ReturnOk \/ BeginCall
    \/ BodyWriteNum \/ BodyWriteUsize \/ BodyWriteUvariant
    \/ BodyReadNum \/ BodyReadUsize \/ BodyReadUvariant

SpecDerive == InitDerive /\ [][NextDerive]_vars

\* C10: when a derived encode or decode, with any nesting of override frames
\* around any primitives, returns Ok, ctxt.settings equals ctxt.settings as
\* it was when the call started.
SettingsPreserved == arg.status = "ok" => ctxt.settings = arg.before

SettingsPreservedWitness ==
    /\ arg.status = "ok"
    /\ arg.deepest >= 2
    /\ arg.inner
    /\ ctxt.settings = arg.before

(***************************************************************************)
(* Narrowing to the configured width on write                              *)
(***************************************************************************)
\* the value of the last write as an Opaque, and the width it is written at
WrittenOpaque ==
    IF last.op = "write_usize" THEN Opaque_from_unsigned(last.args) ELSE last.args

WrittenWidth ==
    IF last.op = "write_usize" THEN last.ctxt.settings.size_repr.width
    ELSE last.ctxt.settings.variant_repr.width

WrittenEncoding ==
    IF last.op = "write_usize" THEN last.ctxt.settings.size_repr
    ELSE last.ctxt.settings.variant_repr

\* a write of a size within max_size or of a variant, made with its channel
\* Absent, so that the value goes to the stream
UnflattenedWrite ==
    /\ last.op \in {"write_usize", "write_uvariant", "write_ivariant"}
    /\ ~ArmedBefore
    /\ last.op = "write_usize" => WithinMax(last.args)

\* the value is in the range of the w-bit type: unsigned, no bit from w up is
\* set; signed, the bits from w up all equal the sign
FitsWidth(o, signed, w) ==
    IF signed
    THEN \A i \in w..OpaqueBits : o.bits[i] = o.bits[OpaqueBits]
    ELSE ~Opaque_negative(o) /\ \A i \in (w + 1)..OpaqueBits : o.bits[i] = 0

\* the bytes the last write produced, read back at the configured width and
\* widened again
ReadBackWritten ==
    LET signed == last.op = "write_ivariant"
        r == read_int_with(signed, last.res.val, WrittenWidth,
                           WrittenEncoding.num_encoding, WrittenEncoding.endianness)
    IN  [ok |-> r.ok /\ r.n = Len(last.res.val),
         bits |-> IF signed THEN SignExt(r.val, OpaqueBits) ELSE ZeroExt(r.val, OpaqueBits)]

MaxBody == 2

Compressions == {"None", "ZStd"}

\* what the underlying IO does during a call: whether the construction of
\* the wrapper and its finish succeed
IO(construct, finish) == [construct |-> construct, finish |-> finish]

\* Compression::compress: only the construction of a zstd encoder can fail
Compression_compress(compression, io) ==
    IF compression = "ZStd" /\ ~io.construct THEN Err("IOError", 0) ELSE Ok(compression, 0)

\* Compression::decompress: only the construction of a zstd decoder can fail
Compression_decompress(compression, io) ==
    IF compression = "ZStd" /\ ~io.construct THEN Err("IOError", 0) ELSE Ok(compression, 0)

\* the bytes that reach the underlying stream for the bytes written through
\* the wrapper: None passes them on, a compressor frames them
Compress_frame(compression, bytes) ==
    IF compression = "None" THEN bytes ELSE <<Len(bytes)>> \o bytes

\* the bytes a reader gets through the wrapper: what the frame at the head
\* of s holds, as much of it as s has
Decompress_frame(compression, s) ==
    IF compression = "None" THEN s
    ELSE IF s = <<>> THEN <<>>
    ELSE SubSeq(s, 2, IF s[1] < Len(s) - 1 THEN 1 + s[1] ELSE Len(s))

\* the bytes of the underlying stream taken for n bytes read through the wrapper
Decompress_taken(compression, s, n) ==
    IF compression = "None" \/ s = <<>> THEN n ELSE 1 + n

\* CompressInner::finish: None unwraps, a compressor writes its trailer
Compress_finish(compression, io) ==
    IF compression # "None" /\ ~io.finish THEN Err("IOError", 0) ELSE Ok(None, 0)

\* DecompressInner::finish: into_inner, which cannot fail
Decompress_finish(compression, io) == Ok(None, 0)

Context_borrow_clone(c) ==
    [user |-> c.user, settings |-> c.settings, bool_flatten |-> c.bool_flatten,
     variant_flatten |-> c.variant_flatten, size_flatten |-> c.size_flatten]

\* Encoder::new(compression.compress(&mut self.stream)?, self.ctxt.borrow_clone())
Encoder_add_compression(c, compression, io) ==
    LET wrapper == Compression_compress(compression, io)
    IN  IF ~wrapper.ok THEN wrapper ELSE Ok(Context_borrow_clone(c), 0)

Encoder_add_decompression(c, compression, io) ==
    LET wrapper == Compression_decompress(compression, io)
    IN  IF ~wrapper.ok THEN wrapper ELSE Ok(Context_borrow_clone(c), 0)

\* a statement of a closure body, run on the encoder of the layer
\* flag is the argument of a bool statement, size that of a size statement
Stmt(op, flag, size) == [op |-> op, flag |-> flag, size |-> size]

Statement(stmt, c, s) ==
    IF stmt.op = "write_bool" THEN write_bool(c, stmt.flag)
    ELSE IF stmt.op = "write_usize" THEN write_usize(c, stmt.size)
    ELSE IF stmt.op = "read_bool" THEN read_bool(c, s)
    ELSE IF stmt.op = "set_bool_flatten"
    THEN Ret([c EXCEPT !.bool_flatten = Some(stmt.flag)], Ok(None, 0))
    ELSE IF stmt.op = "set_max_size"
    THEN Ret([c EXCEPT !.settings.size_repr.max_size = stmt.size], Ok(None, 0))
    ELSE Ret(c, Err("ValidationError", 0))

IsWrite(stmt) == stmt.op \in {"write_bool", "write_usize"}

IsRead(stmt) == stmt.op = "read_bool"

\* f(&mut encoder): the statements in order, each followed by `?`; ctxt is
\* the context of the layer's encoder afterwards, out the bytes written
\* through the wrapper, n the bytes read through it, res what f returns
RECURSIVE Closure_call(_, _, _)
Closure_call(f, c, s) ==
    IF f = <<>> THEN [ctxt |-> c, out |-> <<>>, n |-> 0, res |-> Ok(None, 0)]
    ELSE LET st == Statement(Head(f), c, s)
             wrote == IF IsWrite(Head(f)) /\ st.res.ok THEN st.res.val ELSE <<>>
             took == IF IsRead(Head(f)) THEN st.res.n ELSE 0
         IN  IF ~st.res.ok
             THEN [ctxt |-> st.ctxt, out |-> <<>>, n |-> took, res |-> st.res]
             ELSE IF Len(f) = 1
             THEN [ctxt |-> st.ctxt, out |-> wrote, n |-> took, res |-> st.res]
             ELSE LET rest == Closure_call(Tail(f), st.ctxt, Drop(s, took))
                  IN  [rest EXCEPT !.out = wrote \o @, !.n = took + @]

\* what a layer call did: the caller's context afterwards, the result, the
\* calls it made in order, the context of the layer's encoder when it was
\* finished (None when the layer was not built), the bytes that reached the
\* caller's stream and the bytes taken from it
Layer(c, res, events, inner, out, n) ==
    [ctxt |-> c, res |-> res, events |-> events, inner |-> inner, out |-> out, n |-> n]

\* a layer that returns f's error with `?` before it finishes the wrapper
encode_with_compression_returns_early(c, compression, f, io) ==
    LET encoder == Encoder_add_compression(c, compression, io)
        v == Closure_call(f, encoder.val, <<>>)
        finished == Compress_finish(compression, io)
    IN  IF ~encoder.ok THEN Layer(c, encoder, <<"add_compression">>, None, <<>>, 0)
        ELSE IF ~v.res.ok
        THEN Layer(c, v.res, <<"add_compression", "f">>, Some(v.ctxt), <<>>, 0)
        ELSE IF ~finished.ok
        THEN Layer(c, finished, <<"add_compression", "f", "finish">>, Some(v.ctxt), <<>>, 0)
        ELSE Layer(c, v.res, <<"add_compression", "f", "finish">>, Some(v.ctxt),
                   Compress_frame(compression, v.out), 0)

\* let mut encoder = encoder.add_compression(compression)?;
\* let v = f(&mut encoder);
\* encoder.finish()?.0.finish()?;
\* v
encode_with_compression(c, compression, f, io) ==
    LET encoder == Encoder_add_compression(c, compression, io)
        v == Closure_call(f, encoder.val, <<>>)
        finished == Compress_finish(compression, io)
    IN  IF ~encoder.ok THEN Layer(c, encoder, <<"add_compression">>, None, <<>>, 0)
        ELSE IF ~finished.ok
        THEN Layer(c, finished, <<"add_compression", "f", "finish">>, Some(v.ctxt), <<>>, 0)
        ELSE Layer(c, v.res, <<"add_compression", "f", "finish">>, Some(v.ctxt),
                   Compress_frame(compression, v.out), 0)

decode_with_compression(c, s, compression, f, io) ==
    LET decoder == Encoder_add_decompression(c, compression, io)
        v == Closure_call(f, decoder.val, Decompress_frame(compression, s))
        finished == Decompress_finish(compression, io)
        taken == Decompress_taken(compression, s, v.n)
    IN  IF ~decoder.ok THEN Layer(c, decoder, <<"add_decompression">>, None, <<>>, 0)
        ELSE IF ~finished.ok
        THEN Layer(c, finished, <<"add_decompression", "f", "finish">>, Some(v.ctxt),
                   <<>>, taken)
        ELSE Layer(c, v.res, <<"add_decompression", "f", "finish">>, Some(v.ctxt),
                   <<>>, taken)

(***************************************************************************)
(* An encoder that is used through layers: the caller arms bool_flatten    *)
(* or resets the context between layer calls.                              *)
(***************************************************************************)
\* the statements closures are made of
EncodeStatements ==
    {Stmt("write_bool", TRUE, usize(0)), Stmt("set_bool_flatten", FALSE, usize(0)),
     Stmt("set_max_size", FALSE, usize(3)), Stmt("fail", FALSE, usize(0))}

DecodeStatements ==
    {Stmt("read_bool", FALSE, usize(0)), Stmt("set_max_size", FALSE, usize(3))}

EncodeClosures == SeqsUpTo(EncodeStatements, MaxBody)

DecodeClosures == SeqsUpTo(DecodeStatements, MaxBody)

\* the IO outcomes that make a difference for a compression
IOs(compression, writing) ==
    {io \in {IO(a, b) : a \in BOOLEAN, b \in BOOLEAN} :
        /\ compression # "ZStd" => io.construct
        /\ (compression = "None" \/ ~writing \/ ~io.construct) => io.finish}

\* the inputs decoded through a layer: empty, a frame of one bool, and a
\* frame cut short
LayerInputs == {<<>>, <<1, 1>>, <<3, 1>>}

InitLayer ==
    /\ ctxt = Context_new
    /\ stream \in LayerInputs
    /\ last = NoCall
    /\ arg = None
    /\ frames = <<>>

EncodeWithCompression ==
    \E compression \in Compressions, f \in EncodeClosures :
        \E io \in IOs(compression, TRUE) :
            \E ret \in {encode_with_compression(ctxt, compression, f, io)} :
                /\ ctxt' = ret.ctxt
                /\ last' = Call("encode_with_compression",
                                [compression |-> compression, f |-> f, io |-> io,
                                 ret |-> ret], ret.res, ctxt, stream)
                /\ UNCHANGED <<stream, arg, frames>>

DecodeWithCompression ==
    \E compression \in Compressions, f \in DecodeClosures :
        \E io \in IOs(compression, FALSE) :
            \E ret \in {decode_with_compression(ctxt, stream, compression, f, io)} :
                /\ ctxt' = ret.ctxt
                /\ stream' = Drop(stream, ret.n)
                /\ last' = Call("decode_with_compression",
                                [compression |-> compression, f |-> f, io |-> io,
                                 ret |-> ret], ret.res, ctxt, stream)
                /\ UNCHANGED <<arg, frames>>

NextLayer == SetBoolFlatten \/ EncodeWithCompression \/ DecodeWithCompression

SpecLayer == InitLayer /\ [][NextLayer]_vars

(***************************************************************************)
(* Properties of a layer call                                              *)
(***************************************************************************)
LayerReturned == last.op \in {"encode_with_compression", "decode_with_compression"}

LayerEncodes == last.op = "encode_with_compression"

\* the construction of the wrapper of the last layer call succeeded
LayerConstructed ==
    IF LayerEncodes THEN Compression_compress(last.args.compression, last.args.io).ok
    ELSE Compression_decompress(last.args.compression, last.args.io).ok

\* what the closure of the last layer call does on an encoder whose context
\* starts as the caller's
ClosureOutcome ==
    Closure_call(last.args.f, last.ctxt,
                 IF LayerEncodes THEN <<>>
                 ELSE Decompress_frame(last.args.compression, last.stream))

\* what the finish of the wrapper of the last layer call returns
FinishOutcome ==
    IF LayerEncodes THEN Compress_finish(last.args.compression, last.args.io)
    ELSE Decompress_finish(last.args.compression, last.args.io)

Count(events, e) == Cardinality({i \in DOMAIN events : events[i] = e})

\* C12: once the wrapper of a layer is constructed, its finish is called
\* exactly once, after the one call of the closure f and before the layer
\* returns, whether f returned Ok or Err; when the construction fails f is
\* never called and the layer returns the error.
GuaranteedFinish ==
    LayerReturned =>
        LET events == last.args.ret.events
        IN  IF LayerConstructed
            THEN /\ Count(events, "f") = 1
                 /\ Count(events, "finish") = 1
                 /\ \E i, j \in DOMAIN events :
                       i < j /\ events[i] = "f" /\ events[j] = "finish"
            ELSE /\ Count(events, "f") = 0
                 /\ Count(events, "finish") = 0
                 /\ ~last.res.ok

GuaranteedFinishWitness ==
    /\ LayerEncodes
    /\ last.args.compression = "ZStd"
    /\ LayerConstructed
    /\ ~ClosureOutcome.res.ok
    /\ Count(last.args.ret.events, "finish") = 1

\* C13: a layer returns f's error whenever f failed, even if the finish
\* fails too; the finish error when f succeeded and the finish failed; and
\* f's Ok value when both succeeded.
ErrorPrecedence ==
    (LayerReturned /\ LayerConstructed) =>
        last.res = IF ~ClosureOutcome.res.ok THEN ClosureOutcome.res
                   ELSE IF ~FinishOutcome.ok THEN FinishOutcome
                   ELSE ClosureOutcome.res

\* C14: every change the closure makes to the context of the layer's
\* encoder is in the caller's context when the layer returns.
SharedContext ==
    (LayerReturned /\ LayerConstructed) => ctxt = Unwrap(last.args.ret.inner)

(***************************************************************************)
(* Stream modifiers of the derive macro: the flags of a field hold the     *)
(* modifiers in the order they are declared, and the generator wraps the   *)
(* code of the field in one layer call for each.  Generated code is the    *)
(* sequence of its layer calls, the outermost first, around the body.      *)
(***************************************************************************)
\* the most stream modifiers declared on a field
MaxModifiers == 2

Compressed(compression) == [kind |-> "Compressed", compression |-> compression, key |-> 0]

Encrypted(key) == [kind |-> "Encrypted", compression |-> "None", key |-> key]

\* the modifiers a field is declared with
StreamModifiers == {Compressed("ZStd"), Encrypted(1), Encrypted(7)}

\* a cipher as an invertible transform of each byte: 171 is the inverse of 3
\* modulo 256
Encrypt_byte(key, b) == (3 * b + key) % 256

Decrypt_byte(key, b) == (171 * (b + 256 - key)) % 256

\* the bytes that reach the underlying stream for the bytes written through
\* the layer of a modifier
StreamModifier_write(m, bytes) ==
    IF m.kind = "Compressed" THEN Compress_frame(m.compression, bytes)
    ELSE [i \in 1..Len(bytes) |-> Encrypt_byte(m.key, bytes[i])]

\* the bytes read through the layer of a modifier over the stream s
StreamModifier_read(m, s) ==
    IF m.kind = "Compressed" THEN Decompress_frame(m.compression, s)
    ELSE [i \in 1..Len(s) |-> Decrypt_byte(m.key, s[i])]

\* StreamModifier::derive: a call of encode_with_* or decode_with_* with the
\* input as the body of its closure
StreamModifier_derive(m, target, input) ==
    <<[call |-> target, modifier |-> m]>> \o input

\* derive_stream_modifiers that wraps the decoding code in the reverse order
RECURSIVE derive_stream_modifiers_decode_reversed(_, _, _)
derive_stream_modifiers_decode_reversed(stream_modifiers, target, input) ==
    IF stream_modifiers = <<>> THEN input
    ELSE IF target = "decode"
    THEN StreamModifier_derive(Head(stream_modifiers), target,
             derive_stream_modifiers_decode_reversed(Tail(stream_modifiers), target, input))
    ELSE derive_stream_modifiers_decode_reversed(Tail(stream_modifiers), target,
             StreamModifier_derive(Head(stream_modifiers), target, input))

\* for stream_modifier in self.stream_modifiers.iter() {
\*     input = stream_modifier.derive(ctxt, input)?;
\* }
RECURSIVE derive_stream_modifiers(_, _, _)
derive_stream_modifiers(stream_modifiers, target, input) ==
    IF stream_modifiers = <<>> THEN input
    ELSE derive_stream_modifiers(Tail(stream_modifiers), target,
             StreamModifier_derive(Head(stream_modifiers), target, input))

\* the generated encoding code run with a body that writes plain: what
\* reaches the stream of the encoder it is called on
RECURSIVE RunEncode(_, _)
RunEncode(code, plain) ==
    IF code = <<>> THEN plain
    ELSE StreamModifier_write(Head(code).modifier, RunEncode(Tail(code), plain))

\* the generated decoding code run over the stream s: the bytes its body reads
RECURSIVE RunDecode(_, _)
RunDecode(code, s) ==
    IF code = <<>> THEN s
    ELSE RunDecode(Tail(code), StreamModifier_read(Head(code).modifier, s))

\* the bytes the body of a field writes
PlainInputs == {<<>>, <<1>>, <<3, 128>>, <<255, 0, 1>>}

ModifierLists == SeqsUpTo(StreamModifiers, MaxModifiers)

InitModifiers ==
    /\ ctxt = Context_new
    /\ stream = <<>>
    /\ last = NoCall
    /\ \E mods \in ModifierLists, plain \in PlainInputs :
          arg = [stream_modifiers |-> mods, plain |-> plain]
    /\ frames = <<>>

\* the derived encode of the field
ModifiersEncode ==
    /\ last.op = "init"
    /\ \E code \in {derive_stream_modifiers(arg.stream_modifiers, "encode", <<>>)} :
          /\ stream' = RunEncode(code, arg.plain)
          /\ last' = Call("encode", code, Wrote(stream'), ctxt, stream)
    /\ UNCHANGED <<ctxt, arg, frames>>

\* the derived decode of the field over what the encode wrote
ModifiersDecode ==
    /\ last.op = "encode"
    /\ \E code \in {derive_stream_modifiers(arg.stream_modifiers, "decode", <<>>)} :
          /\ stream' = <<>>
          /\ last' = Call("decode", code, Ok(RunDecode(code, stream), Len(stream)),
                          ctxt, stream)
    /\ UNCHANGED <<ctxt, arg, frames>>

NextModifiers == ModifiersEncode \/ ModifiersDecode

SpecModifiers == InitModifiers /\ [][NextModifiers]_vars

\* the modifiers of generated code, the innermost layer first
Innermost(code) == [i \in 1..Len(code) |-> code[Len(code) + 1 - i].modifier]

\* plain passed through the modifiers in the order of the list
RECURSIVE WriteThrough(_, _)
WriteThrough(mods, plain) ==
    IF mods = <<>> THEN plain
    ELSE WriteThrough(Tail(mods), StreamModifier_write(Head(mods), plain))

\* s undone by the modifiers, the last of the list first
RECURSIVE ReadBack(_, _)
ReadBack(mods, s) ==
    IF mods = <<>> THEN s
    ELSE StreamModifier_read(Head(mods), ReadBack(Tail(mods), s))

\* C15: the generated encode and decode nest the layers of the declared
\* modifiers m1..mk with m1 innermost; the encode passes the body's bytes
\* through m1 first and mk last, the decode undoes mk first and m1 last, and
\* decoding what the encode wrote gives back the body's bytes.
NestedModifiersInvert ==
    /\ last.op = "encode" =>
          /\ Innermost(last.args) = arg.stream_modifiers
          /\ stream = WriteThrough(arg.stream_modifiers, arg.plain)
    /\ last.op = "decode" =>
          /\ Innermost(last.args) = arg.stream_modifiers
          /\ last.res.val = ReadBack(arg.stream_modifiers, last.stream)
          /\ last.res.val = arg.plain

NestedModifiersInvertWitness ==
    /\ last.op = "decode"
    /\ arg.stream_modifiers = <<Compressed("ZStd"), Encrypted(7)>>
    /\ arg.plain = <<3, 128>>
    /\ last.stream # arg.plain
    /\ last.res.val = arg.plain

(***************************************************************************)
(* The seek wrapper.  The encoder is over a seekable buffer: stream is the *)
(* whole buffer and arg.position the stream position.                      *)
(***************************************************************************)
SeekFrom(from, n) == [from |-> from, n |-> n]

\* Seek::seek on a buffer of len bytes at position pos: the new position,
\* or an error when the target is outside the buffer
Stream_seek(len, pos, seek) ==
    LET target == IF seek.from = "Start" THEN seek.n
                  ELSE IF seek.from = "End" THEN len + seek.n
                  ELSE pos + seek.n
    IN  IF target < 0 \/ target > len THEN Err("IOError", 0) ELSE Ok(target, 0)

\* SeekFrom::POSITION
SeekFrom_POSITION == SeekFrom("Current", 0)

Encoder_stream_position(len, pos) == Stream_seek(len, pos, SeekFrom_POSITION)

\* a closure that reads n bytes one after the other: the position afterwards
\* and its result
RECURSIVE ReadBytes(_, _, _)
ReadBytes(s, pos, n) ==
    IF n = 0 THEN [position |-> pos, res |-> Ok(<<>>, 0)]
    ELSE LET byte == read_byte(Drop(s, pos))
             rest == ReadBytes(s, pos + 1, n - 1)
         IN  IF ~byte.ok THEN [position |-> pos, res |-> byte]
             ELSE [rest EXCEPT !.res = IF @.ok THEN Ok(<<byte.val>> \o @.val, 1 + @.n)
                                        ELSE [@ EXCEPT !.n = 1 + @]]

\* whether the stream carries out the position query, the seek to the
\* target and the restoring seek of a with_seek, or fails them
SeekIO(position, seek, restore) == [position |-> position, seek |-> seek, restore |-> restore]

\* Seek::seek on a stream that fails the call when carried_out is FALSE
Stream_seek_io(len, pos, seek, carried_out) ==
    IF ~carried_out THEN Err("IOError", 0) ELSE Stream_seek(len, pos, seek)

\* what a with_seek did: the position it left the stream at, its result, the
\* calls it made in order, the result of f when f was invoked and the
\* argument of the restoring seek when there was one
Sought(position, res, events, f, restore) ==
    [position |-> position, res |-> res, events |-> events, f |-> f, restore |-> restore]

\* with_seek with `f(self)?`: the error of f is returned at once
with_seek_returns_early(s, pos, n, seek, io) ==
    LET prev == Stream_seek_io(Len(s), pos, SeekFrom_POSITION, io.position)
        cur == Stream_seek_io(Len(s), pos, seek, io.seek)
        diff == prev.val - cur.val
        ret == ReadBytes(s, cur.val, n)
        back == Stream_seek_io(Len(s), ret.position, SeekFrom("Current", diff), io.restore)
    IN  IF ~prev.ok THEN Sought(pos, prev, <<"stream_position">>, None, None)
        ELSE IF ~cur.ok THEN Sought(pos, cur, <<"stream_position", "seek">>, None, None)
        ELSE IF ~ret.res.ok
        THEN Sought(ret.position, ret.res, <<"stream_position", "seek", "f">>,
                    Some(ret.res), None)
        ELSE IF ~back.ok
        THEN Sought(ret.position, back, <<"stream_position", "seek", "f", "restore">>,
                    Some(ret.res), Some(SeekFrom("Current", diff)))
        ELSE Sought(back.val, ret.res, <<"stream_position", "seek", "f", "restore">>,
                    Some(ret.res), Some(SeekFrom("Current", diff)))

\* let prev = self.stream_position()? as isize;
\* let cur = self.stream.seek(seek)? as isize;
\* let diff = prev - cur;
\* let ret = f(self);
\* self.stream.seek(SeekFrom::Current(diff))?;
\* ret
with_seek(s, pos, n, seek, io) ==
    LET prev == Stream_seek_io(Len(s), pos, SeekFrom_POSITION, io.position)
        cur == Stream_seek_io(Len(s), pos, seek, io.seek)
        diff == prev.val - cur.val
        ret == ReadBytes(s, cur.val, n)
        back == Stream_seek_io(Len(s), ret.position, SeekFrom("Current", diff), io.restore)
    IN  IF ~prev.ok THEN Sought(pos, prev, <<"stream_position">>, None, None)
        ELSE IF ~cur.ok THEN Sought(pos, cur, <<"stream_position", "seek">>, None, None)
        ELSE IF ~back.ok
        THEN Sought(ret.position, back, <<"stream_position", "seek", "f", "restore">>,
                    Some(ret.res), Some(SeekFrom("Current", diff)))
        ELSE Sought(back.val, ret.res, <<"stream_position", "seek", "f", "restore">>,
                    Some(ret.res), Some(SeekFrom("Current", diff)))

SeekIOs == {SeekIO(TRUE, TRUE, TRUE), SeekIO(FALSE, TRUE, TRUE), SeekIO(TRUE, FALSE, TRUE),
            SeekIO(TRUE, TRUE, FALSE)}

\* the buffers the encoder is over
SeekInputs == {<<1, 3, 128, 255>>, <<1, 3>>}

SeekTargets ==
    {SeekFrom("Start", 0), SeekFrom("Start", 2), SeekFrom("End", -1), SeekFrom("End", 0),
     SeekFrom("Current", -1), SeekFrom("Current", 1), SeekFrom("Current", 0)}

InitSeek ==
    /\ ctxt = Context_new
    /\ stream \in SeekInputs
    /\ last = NoCall
    /\ arg = [position |-> 0]
    /\ frames = <<>>

\* Encoder::seek
Seek ==
    \E seek \in SeekTargets :
        \E r \in {Stream_seek(Len(stream), arg.position, seek)} :
            /\ arg' = [position |-> IF r.ok THEN r.val ELSE arg.position]
            /\ last' = Call("seek",
                            [seek |-> seek, n |-> 0, position |-> arg.position,
                             io |-> SeekIO(TRUE, TRUE, TRUE), events |-> <<"seek">>,
                             f |-> None, restore |-> None],
                            r, ctxt, stream)
            /\ UNCHANGED <<ctxt, stream, frames>>

WithSeek ==
    \E seek \in SeekTargets, n \in 0..MaxBody, io \in SeekIOs :
        \E ret \in {with_seek(stream, arg.position, n, seek, io)} :
            /\ arg' = [position |-> ret.position]
            /\ last' = Call("with_seek",
                            [seek |-> seek, n |-> n, position |-> arg.position, io |-> io,
                             events |-> ret.events, f |-> ret.f, restore |-> ret.restore],
                            ret.res, ctxt, stream)
            /\ UNCHANGED <<ctxt, stream, frames>>

NextSeek == Seek \/ WithSeek

SpecSeek == InitSeek /\ [][NextSeek]_vars

\* C16: after a with_seek that returned Ok, whatever the target and however
\* many bytes the closure read, the stream position is the one the call
\* started at.
WithSeekRestoresPosition ==
    (last.op = "with_seek" /\ last.res.ok) => arg.position = last.args.position

(***************************************************************************)
(* The borrow path.  The encoder is over a borrowed buffer: stream is the  *)
(* part not yet read and arg.address the address of its first byte; the    *)
(* build fixes the native endianness and bit width in arg.system.          *)
(***************************************************************************)
\* the most elements asked for in one borrow
MaxCount == 2

BorrowErrors ==
    {"NonBorrowableNumEncoding", "EndiannessMismatch", "BitWidthMismatch",
     "AlignmentMismatch"}

NumEncoding_borrowable(num_encoding) == num_encoding = "Fixed"

BitWidth_bytes(bit_width) == bit_width \div 8

\* BorrowRead::borrow_read: the next len bytes, consumed
Stream_borrow_read(s, len) ==
    IF len > Len(s) THEN Err("UnexpectedEnd", 0) ELSE Ok(SubSeq(s, 1, len), len)

\* bytemuck::try_cast_slice towards a type of the given size, which is its
\* alignment: the address of the slice must be a multiple of it
try_cast_slice(address, bytes) == address % bytes = 0

\* make_borrow_slice_fn!($name -> $ty), BYTES being size_of::<$ty>()
borrow_slice(s, address, BYTES, length, num_encoding, endianness, system) ==
    LET u8_slice == Stream_borrow_read(s, length * BYTES)
    IN  IF ~NumEncoding_borrowable(num_encoding) THEN Err("NonBorrowableNumEncoding", 0)
        ELSE IF endianness # system.endianness THEN Err("EndiannessMismatch", 0)
        ELSE IF ~u8_slice.ok THEN u8_slice
        ELSE IF ~try_cast_slice(address, BYTES) THEN Err("AlignmentMismatch", u8_slice.n)
        ELSE u8_slice

\* the elements of a borrowed usize slice, in the byte order of the system
SliceElements(bytes, BYTES, system) ==
    [k \in 1..(Len(bytes) \div BYTES) |->
        LET elem == SubSeq(bytes, (k - 1) * BYTES + 1, k * BYTES)
        IN  ZeroExt(from_le_bytes(IF system.endianness = "LittleEndian" THEN elem
                                  ELSE Reverse(elem)), UsizeBits)]

\* borrow_usize_slice that compares the bit width before the endianness
borrow_usize_slice_width_first(c, s, address, len, num_encoding, endianness, bit_width, system) ==
    LET u8_slice == Stream_borrow_read(s, BitWidth_bytes(bit_width) * len)
        conv == SliceElements(u8_slice.val, BitWidth_bytes(bit_width), system)
        max == c.settings.size_repr.max_size
    IN  IF ~NumEncoding_borrowable(num_encoding) THEN Err("NonBorrowableNumEncoding", 0)
        ELSE IF bit_width # system.bit_width THEN Err("BitWidthMismatch", 0)
        ELSE IF endianness # system.endianness THEN Err("EndiannessMismatch", 0)
        ELSE IF ~u8_slice.ok THEN u8_slice
        ELSE IF ~try_cast_slice(address, BitWidth_bytes(bit_width))
        THEN Err("AlignmentMismatch", u8_slice.n)
        ELSE IF \E k \in DOMAIN conv : ULess(max, conv[k])
        THEN Err("MaxSizeExceeded", u8_slice.n)
        ELSE u8_slice

borrow_usize_slice(c, s, address, len, num_encoding, endianness, bit_width, system) ==
    LET u8_slice == Stream_borrow_read(s, BitWidth_bytes(bit_width) * len)
        conv == SliceElements(u8_slice.val, BitWidth_bytes(bit_width), system)
        max == c.settings.size_repr.max_size
    IN  IF ~NumEncoding_borrowable(num_encoding) THEN Err("NonBorrowableNumEncoding", 0)
        ELSE IF endianness # system.endianness THEN Err("EndiannessMismatch", 0)
        ELSE IF bit_width # system.bit_width THEN Err("BitWidthMismatch", 0)
        ELSE IF ~u8_slice.ok THEN u8_slice
        ELSE IF ~try_cast_slice(address, BitWidth_bytes(bit_width))
        THEN Err("AlignmentMismatch", u8_slice.n)
        ELSE IF \E k \in DOMAIN conv : ULess(max, conv[k])
        THEN Err("MaxSizeExceeded", u8_slice.n)
        ELSE u8_slice

\* the builds: the native endianness and pointer width
Systems ==
    {[endianness |-> en, bit_width |-> bw] : en \in Endiannesses, bw \in {32, 64}}

\* the buffers borrowed from, and the addresses they start at
BorrowInputs == {<<1, 0, 0, 0, 3, 0, 0, 0, 0>>, <<0, 0, 1, 0>>}

BaseAddresses == {0, 1}

\* the sizes of the element types u16 .. u128, and the encodings and bit
\* widths a borrow is asked with
ElementBytes == {2, 4, 8, 16}

BorrowEncodings == {"Fixed", "Leb128"}

BorrowWidths == {16, 32, 64}

InitBorrow ==
    /\ \E s \in {Settings("LittleEndian", "Fixed", 64, usize(2), 32), BinSettings_new} :
          ctxt = Context_with_settings(s)
    /\ stream \in BorrowInputs
    /\ last = NoCall
    /\ \E system \in Systems, address \in BaseAddresses :
          arg = [system |-> system, address |-> address]
    /\ frames = <<>>

\* a call on the borrowing encoder that returned res
DoBorrow(op, args, res) ==
    /\ stream' = Drop(stream, res.n)
    /\ arg' = [arg EXCEPT !.address = @ + res.n]
    /\ last' = Call(op, [args EXCEPT !.address = arg.address], res, ctxt, stream)
    /\ UNCHANGED <<ctxt, frames>>

BorrowArgs(BYTES, length, num_encoding, endianness, bit_width) ==
    [BYTES |-> BYTES, length |-> length, num_encoding |-> num_encoding,
     endianness |-> endianness, bit_width |-> bit_width, address |-> 0]

BorrowSlice ==
    \E BYTES \in ElementBytes, length \in 0..MaxCount, num_encoding \in BorrowEncodings,
       endianness \in Endiannesses :
        \E res \in {borrow_slice(stream, arg.address, BYTES, length, num_encoding,
                                 endianness, arg.system)} :
            DoBorrow("borrow_slice",
                     BorrowArgs(BYTES, length, num_encoding, endianness, 8 * BYTES), res)

BorrowUsizeSlice ==
    \E len \in 0..MaxCount, num_encoding \in BorrowEncodings, endianness \in Endiannesses,
       bit_width \in BorrowWidths :
        \E res \in {borrow_usize_slice(ctxt, stream, arg.address, len, num_encoding,
                                       endianness, bit_width, arg.system)} :
            DoBorrow("borrow_usize_slice",
                     BorrowArgs(BitWidth_bytes(bit_width), len, num_encoding, endianness,
                                bit_width), res)

\* Encoder::read_byte, a read that copies
BorrowReadByte ==
    \E res \in {read_byte(stream)} :
        DoBorrow("read_byte", BorrowArgs(1, 1, "Fixed", arg.system.endianness, 8), res)

NextBorrow == BorrowSlice \/ BorrowUsizeSlice \/ BorrowReadByte

SpecBorrow == InitBorrow /\ [][NextBorrow]_vars

Borrowed == last.op \in {"borrow_slice", "borrow_usize_slice"}

\* the last call left the stream where it was
NothingRead == stream = last.stream /\ arg.address = last.args.address /\ last.res.n = 0

\* C17: a borrow fails with NonBorrowableNumEncoding whenever num_encoding
\* is not Fixed; otherwise with EndiannessMismatch whenever the endianness is
\* not the native one; otherwise, for usize and isize, with BitWidthMismatch
\* whenever the bit width is not the native one; and none of the three reads
\* from the stream.
BorrowChecksInOrder ==
    Borrowed =>
        IF last.args.num_encoding # "Fixed"
        THEN ~last.res.ok /\ last.res.err.kind = "NonBorrowableNumEncoding" /\ NothingRead
        ELSE IF last.args.endianness # arg.system.endianness
        THEN ~last.res.ok /\ last.res.err.kind = "EndiannessMismatch" /\ NothingRead
        ELSE IF last.op = "borrow_usize_slice" /\ last.args.bit_width # arg.system.bit_width
        THEN ~last.res.ok /\ last.res.err.kind = "BitWidthMismatch" /\ NothingRead
        ELSE last.res.err.kind \notin
                {"NonBorrowableNumEncoding", "EndiannessMismatch", "BitWidthMismatch"}

BorrowChecksInOrderWitness ==
    /\ last.op = "borrow_usize_slice"
    /\ last.args.num_encoding = "Fixed"
    /\ last.args.endianness = arg.system.endianness
    /\ last.args.bit_width = 16
    /\ last.args.length = 2
    /\ Len(last.stream) >= 4
    /\ last.res.err.kind = "BitWidthMismatch"

\* C18: after a borrow that returned a BorrowError the stream position and
\* the context are what they were before the call.
BorrowErrorsRecoverable ==
    (Borrowed /\ ~last.res.ok /\ last.res.err.kind \in BorrowErrors) =>
        /\ stream = last.stream
        /\ arg.address = last.args.address
        /\ ctxt = last.ctxt

(***************************************************************************)
(* Strings: write_str measures, writes the size and then the chars;        *)
(* read_str reads the size and collects chars under a limiter of that      *)
(* many bytes.  A string is the sequence of its scalar values.             *)
(***************************************************************************)
\* the longest string written or read
MaxChars == 2

\* `for ch in chars { encoder.write_char(ch)?; }`: the bytes written
RECURSIVE write_chars(_, _)
write_chars(c, string) ==
    IF string = <<>> THEN <<>>
    ELSE write_char(c, Head(string)).val \o write_chars(c, Tail(string))

\* SizeTrack::size_written of the encoder over SizeTrack::new(Zero), built
\* with a copy of the context, after the chars were written to it
SizeTrack_size_written(c, string) == Len(write_chars(c, string))

\* write_str that takes the number of chars for the size
write_str_counts_chars(c, string) ==
    LET size == Len(string)
        prefix == write_usize(c, usize(size))
    IN  IF ~prefix.res.ok THEN prefix
        ELSE Ret(prefix.ctxt, Wrote(prefix.res.val \o write_chars(prefix.ctxt, string)))

write_str(c, string) ==
    LET size == SizeTrack_size_written(c, string)
        prefix == write_usize(c, usize(size))
    IN  IF ~prefix.res.ok THEN prefix
        ELSE Ret(prefix.ctxt, Wrote(prefix.res.val \o write_chars(prefix.ctxt, string)))

\* the bytes a reader can get from s under a SizeLimit with remaining bytes
\* left: a read that does not fit is UnexpectedEnd and takes nothing
SizeLimit_readable(s, remaining) ==
    SubSeq(s, 1, IF remaining < Len(s) THEN remaining ELSE Len(s))

\* iter.collect() over CharIter: next() is read_char on the limited encoder;
\* UnexpectedEnd with remaining_readable() = 0 ends the iteration, any
\* other error ends the collect with that error
RECURSIVE CharIter_collect(_, _, _)
CharIter_collect(c, s, remaining) ==
    CHOOSE collected \in
        {IF ~r.ok
         THEN IF r.err.kind = "UnexpectedEnd" /\ remaining - r.n = 0 THEN Ok(<<>>, r.n)
              ELSE r
         ELSE CHOOSE chars \in
                 {IF rest.ok THEN Ok(<<r.val>> \o rest.val, r.n + rest.n)
                  ELSE [rest EXCEPT !.n = r.n + @] :
                     rest \in {CharIter_collect(c, Drop(s, r.n), remaining - r.n)}} : TRUE :
            r \in {read_char(c, readable) : readable \in {SizeLimit_readable(s, remaining)}}} :
        TRUE

\* let length = self.read_usize()?; then the collect under
\* SizeLimit::new(&mut self.stream, 0, length) with a copy of the context
read_str(c, s) ==
    CHOOSE ret \in
        {IF ~length.res.ok THEN length
         ELSE CHOOSE collected \in
                 {Ret(length.ctxt, [chars EXCEPT !.n = length.res.n + @]) :
                     chars \in {CharIter_collect(length.ctxt, rest, remaining) :
                                   rest \in {Drop(s, length.res.n)},
                                   remaining \in {BitsToNat(length.res.val, 1, 31)}}} : TRUE :
            length \in {read_usize(c, s)}} : TRUE

\* the chars strings are made of: A, e acute, and an emoji outside the BMP
StrChars == {65, 233, 128512}

Strings == SeqsUpTo(StrChars, MaxChars)

\* the settings of a string encoder: sizes are one byte
StrSettings(str_encoding, endianness) ==
    [BinSettings_new EXCEPT
        !.string_repr = [str_encoding |-> str_encoding, endianness |-> endianness],
        !.size_repr = [endianness |-> "LittleEndian", num_encoding |-> "Fixed",
                       width |-> 8, max_size |-> usize(255)]]

\* the input: a size, followed by the encoding of a string; the size is at
\* most one more than the bytes that follow
InitStr ==
    /\ \E se \in StrEncodings, en \in Endiannesses :
          ctxt = Context_with_settings(StrSettings(se, en))
    /\ \E string \in Strings :
          \E length \in 0..(Len(write_chars(ctxt, string)) + 1) :
              /\ stream = <<length>> \o write_chars(ctxt, string)
              /\ arg = [string |-> string, length |-> length]
    /\ last = NoCall
    /\ frames = <<>>

\* the size channel is armed before the string is written or read
StrSetSizeFlatten == last.op = "init" /\ SetSizeFlatten

WriteStr ==
    /\ last.op \in {"init", "set_size_flatten"}
    /\ \E ret \in {write_str(ctxt, arg.string)} : DoWrite("write_str", arg.string, ret)

ReadStr ==
    /\ last.op \in {"init", "set_size_flatten"}
    /\ \E ret \in {read_str(ctxt, stream)} : DoRead("read_str", None, ret)

NextStr == StrSetSizeFlatten \/ WriteStr \/ ReadStr

SpecStr == InitStr /\ [][NextStr]_vars

\* the bytes of the string the input was made from, and the window the size
\* at its head announces
InputEncoding == write_chars(last.ctxt, arg.string)

InputWindow == SubSeq(InputEncoding, 1, arg.length)

\* the chars whose encoding fills the first n bytes of the input exactly
CharsWithin(n) ==
    {k \in 0..Len(arg.string) : Len(write_chars(last.ctxt, SubSeq(arg.string, 1, k))) = n}

\* a read_str whose size came from the stream and whose window is all there
WindowRead ==
    /\ last.op = "read_str"
    /\ last.ctxt.size_flatten = None
    /\ arg.length <= Len(InputEncoding)

\* C19: when the window of a read_str ends in the middle of a char the call
\* returns an error; when it ends on a char boundary the call returns Ok
\* with exactly the chars encoded in the window.
StrTruncation ==
    WindowRead =>
        IF CharsWithin(arg.length) = {}
        THEN ~last.res.ok
        ELSE /\ last.res.ok
             /\ \A k \in CharsWithin(arg.length) : last.res.val = SubSeq(arg.string, 1, k)

\* C20: with size_flatten Absent, a write_str that returned Ok wrote the
\* size of the bytes its write_char calls emit under the current string_repr,
\* then exactly those bytes, nothing else, and left the context unchanged.
StringFraming ==
    (last.op = "write_str" /\ last.ctxt.size_flatten = None /\ last.res.ok) =>
        LET body == write_chars(last.ctxt, last.args)
            prefix == read_usize(last.ctxt, last.res.val).res
        IN  /\ prefix.ok
            /\ BitsToNat(prefix.val, 1, 31) = Len(body)
            /\ Drop(last.res.val, prefix.n) = body
            /\ last.res.n = prefix.n + Len(body)
            /\ ctxt = last.ctxt

StringFramingWitness ==
    /\ last.op = "write_str"
    /\ last.ctxt.size_flatten = None
    /\ last.ctxt.settings.string_repr.str_encoding = "Utf8"
    /\ last.args = <<233, 128512>>
    /\ last.res.ok
    /\ last.res.val[1] = 6
    /\ Len(last.res.val) = 7

(***************************************************************************)
(* Var-int decoding of arbitrary input: read_T_with under Leb128,          *)
(* ProtobufWasteful and ProtobufZigzag on streams made of a run of bytes   *)
(* with the continuation bit set, a byte without it, and a byte after it   *)
(***************************************************************************)
\* the longest run of continuation bytes of an input
MaxCont == 20

\* 0x80 and 0xFF: the continuation bit with an empty and with a full group
ContinuationBytes == {128, 255}

\* bytes with the continuation bit clear: 0x00, 0x40 (the sign bit of a
\* signed group) and 0x7F
FinalBytes == {0, 64, 127}

VarIntTails ==
    {<<>>} \cup {<<t>> : t \in FinalBytes} \cup {<<t, 129>> : t \in FinalBytes}

VarIntStreams ==
    {[i \in 1..k |-> b] \o tail : k \in 0..MaxCont, b \in ContinuationBytes, tail \in VarIntTails}

VarIntArgs == {a \in IntArgs : a.num_encoding # "Fixed"}

InitVarInt ==
    /\ arg \in VarIntArgs
    /\ ctxt = Context_new
    /\ stream \in VarIntStreams
    /\ last = NoCall
    /\ frames = <<>>

\* a read that returned r; the stream keeps what the read did not consume
VarIntRead(r) ==
    /\ last.op = "init" \/ stream # <<>>
    /\ stream' = Drop(stream, r.n)
    /\ last' = Call("read_int", arg, r, ctxt, stream)
    /\ UNCHANGED <<ctxt, arg, frames>>

ReadUnsigned ==
    /\ ~arg.signed
    /\ \E r \in {u_read_direct(stream, arg.w, arg.num_encoding, arg.endianness)} : VarIntRead(r)

ReadSigned ==
    /\ arg.signed
    /\ \E r \in {i_read_direct(stream, arg.w, arg.num_encoding, arg.endianness)} : VarIntRead(r)

NextVarInt == ReadUnsigned \/ ReadSigned

SpecVarInt == InitVarInt /\ [][NextVarInt]_vars

\* ceil(bits(T) / 7)
MaxGroups(w) == (w + 6) \div 7

\* the bytes with the continuation bit clear among the first n of s
Terminators(s, n) == {i \in 1..n : i <= Len(s) /\ s[i] < 128}

\* C21: a var-int read of a T of w bits consumes at most ceil(w / 7) bytes;
\* when the input has that many bytes and each of them has the continuation
\* bit set the read fails with VarIntError; and a read never consumes a byte
\* after the first byte whose continuation bit is clear.
VarIntBounded ==
    last.op = "read_int" =>
        /\ last.res.n <= MaxGroups(arg.w)
        /\ (Len(last.stream) >= MaxGroups(arg.w)
                /\ Terminators(last.stream, MaxGroups(arg.w)) = {})
              => (~last.res.ok /\ last.res.err.kind = "VarIntError")
        /\ \A i \in Terminators(last.stream, Len(last.stream)) : last.res.n <= i

\* 20 bytes 0x80 read as a u128
VarIntBoundedWitness ==
    /\ last.op = "read_int"
    /\ ~arg.signed /\ arg.w = 128 /\ arg.num_encoding = "Leb128"
    /\ last.stream = [i \in 1..20 |-> 128]
    /\ ~last.res.ok /\ last.res.err.kind = "VarIntError"
    /\ last.res.n = 19

\* the 7-bit groups of the first n bytes of s, least significant first
GroupBits(s, n) ==
    [i \in 1..(7 * n) |-> (s[((i - 1) \div 7) + 1] \div Pow2((i - 1) % 7)) % 2]

\* two bit vectors of any widths stand for the same natural number
SameNat(a, b) ==
    LET w == IF Width(a) > Width(b) THEN Width(a) ELSE Width(b)
    IN  ZeroExt(a, w) = ZeroExt(b, w)

\* C27: an unsigned var-int read returns Ok(v) only when v is the number the
\* 7-bit groups of the bytes it consumed stand for.
VarIntExact ==
    (last.op = "read_int" /\ ~arg.signed /\ last.res.ok) =>
        SameNat(last.res.val, GroupBits(last.stream, last.res.n))

(***************************************************************************)
(* Signed LEB128 and zigzag, on the integer round trip                     *)
(***************************************************************************)
SignedLebWrite ==
    last.op = "write_int" /\ arg.signed /\ arg.num_encoding = "Leb128"

\* C22: the signed LEB128 of a value of an iN is between 1 and ceil(N / 7)
\* bytes long, every byte but the last has the continuation bit set and the
\* last has it clear; i128::MIN takes exactly 19 bytes, and reading them
\* back returns i128::MIN.
SignedLebLength ==
    /\ SignedLebWrite =>
          LET bytes == last.res.val
          IN  /\ last.res.ok
              /\ 1 <= Len(bytes) /\ Len(bytes) <= MaxGroups(arg.w)
              /\ \A i \in 1..(Len(bytes) - 1) : bytes[i] >= 128
              /\ bytes[Len(bytes)] < 128
              /\ (arg.w = 128 /\ arg.x = MinSigned(128)) => Len(bytes) = 19
    /\ (last.op = "read_int" /\ arg.signed /\ arg.num_encoding = "Leb128"
            /\ arg.w = 128 /\ arg.x = MinSigned(128))
          => (last.res.ok /\ last.res.val = MinSigned(128) /\ last.res.n = 19)

SignedLebLengthWitness ==
    /\ SignedLebWrite
    /\ arg.w = 128 /\ arg.x = MinSigned(128)
    /\ Len(last.res.val) = 19
    /\ last.res.val[19] = 126

\* (v << 1) ^ (v >> (N - 1)) bit by bit: the sign of v in the lowest bit,
\* above it the bits of v, each inverted when v is negative
ZigzagBits(v) ==
    [i \in 1..Width(v) |-> IF i = 1 THEN v[Width(v)]
                           ELSE IF v[i - 1] # v[Width(v)] THEN 1 ELSE 0]

\* C25: write_iN_with(v, ProtobufZigzag, _) writes the unsigned LEB128 of
\* u = (v << 1) ^ (v >> (N - 1)), so 0 is 00, -1 is 01, 1 is 02 and iN::MIN
\* is the encoding of 2^N - 1; read_iN_with(ProtobufZigzag, _) returns u >> 1
\* for an even u and !(u >> 1) for an odd u.
ZigzagMapping ==
    /\ (last.op = "write_int" /\ arg.signed /\ arg.num_encoding = "ProtobufZigzag") =>
          /\ last.res.ok
          /\ last.res.val = uleb128_encode(ZigzagBits(arg.x))
          /\ arg.x = Zeros(arg.w) => last.res.val = <<0>>
          /\ arg.x = Ones(arg.w) => last.res.val = <<1>>
          /\ arg.x = FromNat(1, arg.w) => last.res.val = <<2>>
          /\ arg.x = MinSigned(arg.w) => last.res.val = uleb128_encode(Ones(arg.w))
    /\ (last.op = "read_int" /\ arg.signed /\ arg.num_encoding = "ProtobufZigzag") =>
          \A u \in {uleb128_decode(last.stream, arg.w)} :
              /\ u.ok /\ last.res.ok
              /\ last.res.val = IF u.val[1] = 0 THEN Shr(u.val, 1) ELSE BitNot(Shr(u.val, 1))

\* -1 as an i32: the byte 01, read back as -1
ZigzagMappingWitness ==
    /\ last.op = "read_int"
    /\ arg.signed /\ arg.num_encoding = "ProtobufZigzag" /\ arg.w = 32
    /\ arg.x = Ones(32)
    /\ last.stream = <<1>>
    /\ last.res.ok /\ last.res.val = Ones(32)

(***************************************************************************)
(* Signed variants: write_ivariant on an empty stream, then read_ivariant  *)
(* of the same type on the bytes written                                   *)
(***************************************************************************)
\* the signed values of w bits a variant is made from
SignedVariantValues(w) ==
    {FromInt(n, w) : n \in {-2, -1, 0, 1, 100}} \cup {MinSigned(w), MaxSigned(w)}

VariantSettings(width, num_encoding, endianness) ==
    [BinSettings_new EXCEPT
        !.variant_repr = [endianness |-> endianness, num_encoding |-> num_encoding,
                          width |-> width]]

\* arg is the value of the caller's type V, of arg.w bits
InitVariant ==
    /\ \E width \in BitWidths, enc \in NumEncodings, en \in Endiannesses :
          /\ ctxt = Context_with_settings(VariantSettings(width, enc, en))
          /\ \E v \in SignedVariantValues(width), w \in {width, 128} :
                arg = [value |-> SignExt(v, w), w |-> w]
    /\ stream = <<>>
    /\ last = NoCall
    /\ frames = <<>>

VariantWrite ==
    /\ last.op = "init"
    /\ \E ret \in {write_ivariant(ctxt, Opaque_from_signed(arg.value))} :
          /\ ctxt' = ret.ctxt
          /\ stream' = IF ret.res.ok THEN stream \o ret.res.val ELSE stream
          /\ last' = Call("write_ivariant", arg.value, ret.res, ctxt, stream)
    /\ UNCHANGED <<arg, frames>>

VariantRead ==
    /\ last.op = "write_ivariant" /\ last.res.ok
    /\ \E ret \in {read_ivariant(ctxt, stream, arg.w)} :
          /\ ctxt' = ret.ctxt
          /\ stream' = Drop(stream, ret.res.n)
          /\ last' = Call("read_ivariant", arg.w, ret.res, ctxt, stream)
    /\ UNCHANGED <<arg, frames>>

NextVariant == VariantWrite \/ VariantRead

SpecVariant == InitVariant /\ [][NextVariant]_vars

\* C23: for every width, encoding and endianness of variant_repr and every
\* signed value representable at that width, write_ivariant returns Ok and
\* read_ivariant on the bytes it wrote returns Ok of the same value.
SignedVariantRoundTrip ==
    /\ last.op = "write_ivariant" => last.res.ok
    /\ last.op = "read_ivariant" => (last.res.ok /\ last.res.val = arg.value)

(***************************************************************************)
(* The context alone: built by new, with_settings or with_user_data, its   *)
(* flatten channels armed by the caller, and reset                         *)
(***************************************************************************)
\* the values a caller lends as user data
UserData == {"key", "table"}

InitContext ==
    /\ ctxt \in {Context_new}
                  \cup {Context_with_settings(s) : s \in SettingsSet}
                  \cup {Context_with_user_data(s, d) : s \in SettingsSet, d \in UserData}
    /\ stream = <<>>
    /\ last = NoCall
    /\ arg = None
    /\ frames = <<>>

NextContext == SetSizeFlatten \/ SetBoolFlatten \/ SetVariantFlatten \/ Reset

SpecContext == InitContext /\ [][NextContext]_vars

\* C24: after reset(s) the context equals Context::with_settings(s): the
\* settings are s, the three flatten channels are Absent and the user data
\* is absent.
ResetEqualsWithSettings ==
    last.op = "reset" => ctxt = Context_with_settings(last.args)

(***************************************************************************)
(* Encode and Decode for [T; SIZE], with T = u8 under num_repr.  A panic   *)
(* is kept as a result of kind "Panic": it is not a value the caller gets. *)
(***************************************************************************)
\* the longest array
MaxSize == 2

\* u8::encode and u8::decode: write_u8 / read_u8 under num_repr
Element_encode(c, value) ==
    u_write_direct(value, c.settings.num_repr.num_encoding, c.settings.num_repr.endianness)

Element_decode(c, s) ==
    u_read_direct(s, 8, c.settings.num_repr.num_encoding, c.settings.num_repr.endianness)

\* `for i in 0..SIZE { self[i].encode(encoder)?; }`
RECURSIVE Array_encode(_, _)
Array_encode(c, array) ==
    IF array = <<>> THEN Wrote(<<>>)
    ELSE \* the element encoders of u8 do not fail
         Wrote(Element_encode(c, Head(array)).val \o Array_encode(c, Tail(array)).val)

\* size calls of T::decode in a row, stopping at the first Err; calls is the
\* number of calls made
RECURSIVE decode_in_turn(_, _, _)
decode_in_turn(c, s, size) ==
    IF size = 0 THEN [res |-> Ok(<<>>, 0), calls |-> 0]
    ELSE CHOOSE out \in
            {IF ~r.ok THEN [res |-> r, calls |-> 1]
             ELSE CHOOSE all \in
                    {[res |-> IF rest.res.ok THEN Ok(<<r.val>> \o rest.res.val, r.n + rest.res.n)
                              ELSE [rest.res EXCEPT !.n = r.n + @],
                      calls |-> 1 + rest.calls] :
                        rest \in {decode_in_turn(c, Drop(s, r.n), size - 1)}} : TRUE :
                r \in {Element_decode(c, s)}} : TRUE

\* `array_init(|_| T::decode(decoder).unwrap())`, then the loop with `?`
Array_decode(c, s, size) ==
    CHOOSE out \in
        {IF ~uninit.res.ok
         THEN [res |-> Err("Panic", uninit.res.n), calls |-> uninit.calls]
         ELSE CHOOSE all \in
                {[res |-> [loop.res EXCEPT !.n = uninit.res.n + @],
                  calls |-> uninit.calls + loop.calls] :
                    loop \in {decode_in_turn(c, Drop(s, uninit.res.n), size)}} : TRUE :
            uninit \in {decode_in_turn(c, s, size)}} : TRUE

ArrayElements == {FromNat(1, 8), FromNat(200, 8)}

Arrays == SeqsUpTo(ArrayElements, MaxSize)

\* what is on the stream before the array: nothing, or elements of another array
ArrayInputs == {<<>>, <<1>>, <<1, 3>>, <<200, 1, 3, 128>>}

NumSettings(num_encoding) == [BinSettings_new EXCEPT !.num_repr.num_encoding = num_encoding]

InitArray ==
    /\ \E enc \in {"Fixed", "Leb128"} : ctxt = Context_with_settings(NumSettings(enc))
    /\ stream \in ArrayInputs
    /\ arg \in Arrays
    /\ last = NoCall
    /\ frames = <<>>

\* [T; SIZE]::encode on an encoder whose stream is empty
ArrayEncode ==
    /\ last.op = "init"
    /\ stream = <<>>
    /\ \E r \in {Array_encode(ctxt, arg)} :
          /\ stream' = r.val
          /\ last' = Call("encode_array", arg, r, ctxt, stream)
    /\ UNCHANGED <<ctxt, arg, frames>>

\* <[T; SIZE]>::decode for the SIZE of the array that was encoded, or for
\* any SIZE on an input
ArrayDecode ==
    /\ last.op \in {"init", "encode_array"}
    /\ \E size \in IF last.op = "init" THEN 0..MaxSize ELSE {Len(arg)} :
          \E ret \in {Array_decode(ctxt, stream, size)} :
              /\ stream' = Drop(stream, ret.res.n)
              /\ last' = Call("decode_array", [size |-> size, calls |-> ret.calls],
                              ret.res, ctxt, stream)
    /\ UNCHANGED <<ctxt, arg, frames>>

NextArray == ArrayEncode \/ ArrayDecode

SpecArray == InitArray /\ [][NextArray]_vars

\* C26: Decode for [T; N] returns a value, Ok or Err, and never panics; it
\* makes at most N element decodes, exactly N when it returns Ok; on the
\* bytes written by Encode for the array it returns Ok of the array and has
\* consumed exactly those bytes.
ArrayDecodeExact ==
    last.op = "decode_array" =>
        /\ ~last.res.ok => last.res.err.kind # "Panic"
        /\ last.args.calls <= last.args.size
        /\ last.res.ok => last.args.calls = last.args.size
        /\ last.stream = Array_encode(last.ctxt, arg).val /\ last.args.size = Len(arg)
              => (last.res.ok /\ last.res.val = arg /\ last.res.n = Len(last.stream))

(***************************************************************************)
(* The primitives that consult no flatten channel, next to those that do:  *)
(* integers under num_repr, floats, chars and raw bytes                    *)
(***************************************************************************)
\* write_u16 / write_i16: $u_write and $i_write under num_repr
write_num(c, signed, value) ==
    Ret(c, write_int_with(signed, value, c.settings.num_repr.num_encoding,
                          c.settings.num_repr.endianness))

\* read_u16 / read_i16
read_num(c, s, signed, w) ==
    Ret(c, read_int_with(signed, s, w, c.settings.num_repr.num_encoding,
                         c.settings.num_repr.endianness))

\* write_f32 on the bits of the float: Fixed whatever num_repr says
write_f32(c, bits) == Ret(c, u_write_direct(bits, "Fixed", c.settings.num_repr.endianness))

\* read_f32, returning the bits of the float
read_f32(c, s) == Ret(c, u_read_direct(s, 32, "Fixed", c.settings.num_repr.endianness))

PlainWrites == {"write_u16", "write_i16", "write_isize", "write_f32", "write_char", "write_byte"}

PlainReads == {"read_u16", "read_i16", "read_isize", "read_f32", "read_char", "read_byte"}

\* the call op(a) on an encoder with context c over the unread bytes s
Encoder_call(op, a, c, s) ==
    CASE op = "write_usize" -> write_usize(c, a)
      [] op = "write_bool" -> write_bool(c, a)
      [] op = "write_uvariant" -> write_uvariant(c, a)
      [] op = "write_ivariant" -> write_ivariant(c, a)
      [] op = "read_usize" -> read_usize(c, s)
      [] op = "read_bool" -> read_bool(c, s)
      [] op = "read_uvariant" -> read_uvariant(c, s, a)
      [] op = "read_ivariant" -> read_ivariant(c, s, a)
      [] op = "write_isize" -> write_isize(c, a)
      [] op = "read_isize" -> read_isize(c, s)
      [] op = "write_u16" -> write_num(c, FALSE, a)
      [] op = "write_i16" -> write_num(c, TRUE, a)
      [] op = "read_u16" -> read_num(c, s, FALSE, 16)
      [] op = "read_i16" -> read_num(c, s, TRUE, 16)
      [] op = "write_f32" -> write_f32(c, a)
      [] op = "read_f32" -> read_f32(c, s)
      [] op = "write_char" -> Ret(c, write_char(c, a))
      [] op = "read_char" -> Ret(c, read_char(c, s))
      [] op = "write_byte" -> Ret(c, write_byte(a))
      [] op = "read_byte" -> Ret(c, read_byte(s))

WriteU16 ==
    \E v \in {FromNat(300, 16)} :
        \E ret \in {write_num(ctxt, FALSE, v)} : DoWrite("write_u16", v, ret)

WriteI16 ==
    \E v \in {FromInt(-2, 16)} :
        \E ret \in {write_num(ctxt, TRUE, v)} : DoWrite("write_i16", v, ret)

\* 1.0f32
WriteF32 ==
    \E v \in {FromNat(1065353216, 32)} :
        \E ret \in {write_f32(ctxt, v)} : DoWrite("write_f32", v, ret)

WriteChar ==
    \E v \in {233} : \E r \in {write_char(ctxt, v)} : DoWrite("write_char", v, Ret(ctxt, r))

WriteByte ==
    \E v \in {255} : \E r \in {write_byte(v)} : DoWrite("write_byte", v, Ret(ctxt, r))

ReadU16 == \E ret \in {read_num(ctxt, stream, FALSE, 16)} : DoRead("read_u16", None, ret)

ReadI16 == \E ret \in {read_num(ctxt, stream, TRUE, 16)} : DoRead("read_i16", None, ret)

ReadF32 == \E ret \in {read_f32(ctxt, stream)} : DoRead("read_f32", None, ret)

ReadChar == \E r \in {read_char(ctxt, stream)} : DoRead("read_char", None, Ret(ctxt, r))

ReadByte == \E r \in {read_byte(stream)} : DoRead("read_byte", None, Ret(ctxt, r))

ChannelInputs == SeqsUpTo({1, 128}, MaxInput)

InitChannels ==
    /\ \E s \in SettingsSet : ctxt = Context_with_settings(s)
    /\ stream \in ChannelInputs
    /\ last = NoCall
    /\ arg = None
    /\ frames = <<>>

NextChannels ==
    \/ SetSizeFlatten \/ SetBoolFlatten \/ SetVariantFlatten
    \/ WriteUsize \/ WriteBool \/ WriteUvariant \/ WriteIvariant
    \/ ReadUsize \/ ReadBool \/ ReadUvariant \/ ReadIvariant
    \/ WriteIsize \/ ReadIsize
    \/ WriteU16 \/ WriteI16 \/ WriteF32 \/ WriteChar \/ WriteByte
    \/ ReadU16 \/ ReadI16 \/ ReadF32 \/ ReadChar \/ ReadByte

SpecChannels == InitChannels /\ [][NextChannels]_vars

Kinds == {"size", "bool", "variant"}

\* a value to arm a channel with
ArmValue(kind) ==
    CASE kind = "size" -> usize(3)
      [] kind = "bool" -> FALSE
      [] kind = "variant" -> Opaque_from_unsigned(FromNat(1, 32))

SetChannel(c, kind, v) ==
    CASE kind = "size" -> [c EXCEPT !.size_flatten = v]
      [] kind = "bool" -> [c EXCEPT !.bool_flatten = v]
      [] kind = "variant" -> [c EXCEPT !.variant_flatten = v]

\* c with the channel of kind armed when it is Absent and Absent when it is armed
Toggle(c, kind) ==
    SetChannel(c, kind, IF Channel(c, kind) = None THEN Some(ArmValue(kind)) ELSE None)

\* the last call made again from the context it started from, with the
\* channel of kind toggled
Replayed(kind) == Encoder_call(last.op, last.args, Toggle(last.ctxt, kind), last.stream)

\* C28: a size, bool or variant operation leaves the channels of the two
\* other kinds as they were and returns the same result, with the same
\* effect on its own channel, whatever they hold; an integer, isize, float,
\* char or byte operation leaves the three channels and the settings as they
\* were and returns the same result whatever the channels hold.
ChannelsIndependent ==
    /\ last.op \in FlattenWrites \cup FlattenReads =>
          \A kind \in Kinds \ {KindOf(last.op)} :
              /\ Channel(ctxt, kind) = Channel(last.ctxt, kind)
              /\ \A again \in {Replayed(kind)} :
                    /\ again.res = last.res
                    /\ Channel(again.ctxt, KindOf(last.op)) = ChannelNow
                    /\ again.ctxt.settings = ctxt.settings
    /\ last.op \in PlainWrites \cup PlainReads =>
          /\ ctxt = last.ctxt
          /\ \A kind \in Kinds :
                \A again \in {Replayed(kind)} :
                    /\ again.res = last.res
                    /\ again.ctxt = Toggle(last.ctxt, kind)

\* write_isize with the three channels armed
ChannelsIndependentWitness ==
    /\ last.op = "write_isize"
    /\ last.res.ok
    /\ \A kind \in Kinds : Channel(last.ctxt, kind) # None
    /\ ctxt = last.ctxt

(***************************************************************************)
(* The `flatten` modifier of a field.  AllModifiers::derive adds to the    *)
(* save, set and restore lists of the field                                *)
(*     let __flatten = encoder.ctxt.flatten;                               *)
(*     encoder.ctxt.flatten = Some(expr);                                  *)
(*     encoder.ctxt.flatten = __flatten;                                   *)
(* and the generated codec runs save and set, the body of the field with   *)
(* `?` after every call, then restore.  ctxt.flatten is the one channel of *)
(* the encoder these statements are generated for; it is kept in           *)
(* size_flatten.  Its operations are write_length and read_length.         *)
(***************************************************************************)
\* Context::flatten: the channel is taken
Context_flatten(c) == [ctxt |-> [c EXCEPT !.size_flatten = None], val |-> c.size_flatten]

\* `value as _` towards the configured width
CastTo(value, w) == IF w <= Width(value) THEN SubSeq(value, 1, w) ELSE ZeroExt(value, w)

\* write_usize of that encoder: the max check, then a cast to the width
write_usize_as(c, value) ==
    LET repr == c.settings.size_repr
    IN  IF ULess(repr.max_size, value)
        THEN ErrWith("MaxLengthExceeded", repr.max_size, value, 0)
        ELSE u_write_direct(CastTo(value, repr.width), repr.num_encoding, repr.endianness)

read_usize_as(c, s) ==
    LET repr == c.settings.size_repr
        r == u_read_direct(s, repr.width, repr.num_encoding, repr.endianness)
    IN  IF ~r.ok THEN r
        ELSE IF ULess(repr.max_size, CastTo(r.val, UsizeBits))
             THEN ErrWith("MaxLengthExceeded", repr.max_size, CastTo(r.val, UsizeBits), r.n)
             ELSE Ok(CastTo(r.val, UsizeBits), r.n)

write_length(c, value) ==
    LET f == Context_flatten(c)
    IN  IF f.val = None THEN Ret(f.ctxt, write_usize_as(f.ctxt, value))
        ELSE Ret(f.ctxt, Wrote(<<>>))

read_length(c, s) ==
    LET f == Context_flatten(c)
    IN  IF f.val # None THEN Ret(f.ctxt, Ok(Unwrap(f.val), 0))
        ELSE Ret(f.ctxt, read_usize_as(f.ctxt, s))

\* the save statement: the local __flatten
Flatten_save(c) == c.size_flatten

Flatten_set(c, flatten) == [c EXCEPT !.size_flatten = Some(flatten)]

\* a field whose restore statement is missing
Flatten_restore_missing(c, saved) == c

Flatten_restore(c, saved) == [c EXCEPT !.size_flatten = saved]

\* the expressions of the flatten flags
FlattenExprs == {usize(2), usize(3)}

\* the call in progress: whether it is running or how it returned
FieldCall(status, mode) == [status |-> status, mode |-> mode]

InitField ==
    /\ \E s \in SettingsSet : ctxt = Context_with_settings(s)
    /\ stream \in DeriveInputs
    /\ last = NoCall
    /\ \E mode \in DeriveModes : arg = FieldCall("running", mode)
    /\ frames = <<>>

\* save and set of a field with a flatten flag; entry is the channel as the
\* field found it
EnterField ==
    /\ arg.status = "running"
    /\ Len(frames) < MaxDepth
    /\ \E flatten \in FlattenExprs :
          /\ frames' = Append(frames, [saved |-> Flatten_save(ctxt), entry |-> ctxt.size_flatten])
          /\ ctxt' = Flatten_set(ctxt, flatten)
          /\ last' = Call("enter_field", [depth |-> Len(frames), flatten |-> flatten], None,
                          ctxt, stream)
    /\ UNCHANGED <<stream, arg>>

\* restore of the innermost field, reached when its body returned Ok
LeaveField ==
    /\ arg.status = "running"
    /\ frames # <<>>
    /\ \E frame \in {frames[Len(frames)]} :
          /\ ctxt' = Flatten_restore(ctxt, frame.saved)
          /\ last' = Call("leave_field", [depth |-> Len(frames) - 1, entry |-> frame.entry],
                          None, ctxt, stream)
    /\ frames' = SubSeq(frames, 1, Len(frames) - 1)
    /\ UNCHANGED <<stream, arg>>

\* a call in the body of a field, or between two fields, that returned ret
FieldBody(op, value, ret) ==
    /\ ctxt' = ret.ctxt
    /\ stream' = Drop(stream, IF arg.mode = "decode" THEN ret.res.n ELSE 0)
    /\ last' = Call(op, [depth |-> Len(frames), value |-> value], ret.res, ctxt, stream)
    /\ IF ret.res.ok
       THEN UNCHANGED <<arg, frames>>
       ELSE /\ arg' = [arg EXCEPT !.status = "err"]
            /\ frames' = <<>>

FieldWriteLength ==
    /\ arg.status = "running" /\ arg.mode = "encode"
    /\ \E v \in {usize(3)} : \E ret \in {write_length(ctxt, v)} : FieldBody("write_length", v, ret)

FieldWriteNum ==
    /\ arg.status = "running" /\ arg.mode = "encode"
    /\ \E v \in NumValues : \E ret \in {write_num(ctxt, FALSE, v)} : FieldBody("write_u16", v, ret)

FieldReadLength ==
    /\ arg.status = "running" /\ arg.mode = "decode"
    /\ \E ret \in {read_length(ctxt, stream)} : FieldBody("read_length", usize(0), ret)

FieldReadNum ==
    /\ arg.status = "running" /\ arg.mode = "decode"
    /\ \E ret \in {read_num(ctxt, stream, FALSE, 16)} : FieldBody("read_u16", usize(0), ret)

NextField ==
    \/ EnterField \/ LeaveField
    \/ FieldWriteLength \/ FieldWriteNum \/ FieldReadLength \/ FieldReadNum

SpecField == InitField /\ [][NextField]_vars

\* C29: when the body of a field with a flatten flag has returned Ok and the
\* restore has run, the channel is what it was when the field was entered,
\* whether or not the body took the value the field set; so a call made
\* between the fields of the outermost struct finds the channel Absent.
FieldFlattenRestored ==
    /\ last.op = "leave_field" => ctxt.size_flatten = last.args.entry
    /\ (arg.status = "running" /\ Len(frames) = 0) => ctxt.size_flatten = None
    /\ (last.op \in {"write_length", "read_length"} /\ last.args.depth = 0 /\ last.res.ok)
          => last.res.n > 0

\* a field whose body did not take the value: the channel is armed when the
\* restore runs, and Absent after it
FieldFlattenRestoredWitness ==
    /\ last.op = "leave_field"
    /\ last.args.depth = 0
    /\ last.ctxt.size_flatten = Some(usize(3))
    /\ ctxt.size_flatten = None

(***************************************************************************)
(* with_seek: the order of its calls and its error paths                   *)
(***************************************************************************)

\* the position a seek asks for, whether or not the stream can reach it
SeekTarget(len, pos, seek) ==
    IF seek.from = "Start" THEN seek.n
    ELSE IF seek.from = "End" THEN len + seek.n
    ELSE pos + seek.n

\* C30: a with_seek invokes f only after the position query and the seek to
\* the target both succeeded; when either fails it returns that error
\* without invoking f and without a restoring seek; once f has returned, Ok
\* or Err, it makes exactly one restoring seek, by Current(prev - cur); it
\* returns the result of f when the restoring seek succeeded and the error
\* of the restoring seek when it failed.
WithSeekOrder ==
    last.op = "with_seek" =>
        LET a == last.args
            len == Len(last.stream)
            cur == SeekTarget(len, a.position, a.seek)
            reachable == cur >= 0 /\ cur <= len
            restores == {i \in 1..Len(a.events) : a.events[i] = "restore"}
            invoked == {i \in 1..Len(a.events) : a.events[i] = "f"}
        IN  /\ ~a.io.position =>
                /\ a.events = <<"stream_position">>
                /\ ~last.res.ok /\ last.res.err.kind = "IOError"
            /\ (a.io.position /\ ~(a.io.seek /\ reachable)) =>
                /\ a.events = <<"stream_position", "seek">>
                /\ ~last.res.ok /\ last.res.err.kind = "IOError"
            /\ (a.io.position /\ a.io.seek /\ reachable) =>
                /\ a.events = <<"stream_position", "seek", "f", "restore">>
                /\ a.f = Some(ReadBytes(last.stream, cur, a.n).res)
                /\ a.restore = Some(SeekFrom("Current", a.position - cur))
                /\ LET after == ReadBytes(last.stream, cur, a.n).position + a.position - cur
                   IN  IF a.io.restore /\ after >= 0 /\ after <= len
                       THEN last.res = Unwrap(a.f)
                       ELSE ~last.res.ok /\ last.res.err.kind = "IOError"
            /\ invoked # {} => Cardinality(restores) = 1
            /\ invoked = {} => restores = {} /\ a.f = None /\ a.restore = None

\* f failed at the end of the input, the restoring seek was made and
\* succeeded, and the call returned the error of f
WithSeekOrderWitness ==
    /\ last.op = "with_seek"
    /\ last.args.f # None
    /\ ~Unwrap(last.args.f).ok
    /\ last.args.events = <<"stream_position", "seek", "f", "restore">>
    /\ last.res = Unwrap(last.args.f)
    /\ last.res.err.kind = "UnexpectedEnd"
    /\ arg.position # last.args.position

====
